---- MODULE Spec2Model ----
(***************************************************************************)
(* A model of the Cortex-agent Slack bot: CortexChat._retrieve_response    *)
(* (cortex_chat.py) consuming a server-sent-event stream line by line,     *)
(* CortexResponseParser.parse_sse_response / extract_summary               *)
(* (cortex_response_parser.py) run over the collected lines, and           *)
(* handle_message_event (app.py) driving one shared CortexChat object.     *)
(*                                                                         *)
(* Strings are sequences of tokens: a token is a character ("a", " ") or   *)
(* one of the two tags <thinking> and </thinking>, which the code only     *)
(* ever searches for and removes as a whole.  A JSON object is a function  *)
(* from its keys to its values.  Python's None is the value None below     *)
(* wherever the code compares against it.                                  *)
(***************************************************************************)
EXTENDS Integers, Sequences, FiniteSets, TLC

\* ------------------------------------------------------------------ bounds

\* The longest stream of non-blank lines a request reads: of the bot's request,
\* of each of two concurrent requests, and in the streams of status frames, of
\* thinking frames and of text frames.
MaxLines == 4
MaxConcurrentLines == 2
MaxStatusLines == 6
MaxThinkingLines == 5
MaxTextLines == 5

\* ------------------------------------------------------------------ strings

OPEN == "<thinking>"
CLOSE == "</thinking>"

IsSpace(c) == c \in {" ", "\n", "\t"}

RECURSIVE LStrip(_)
LStrip(s) ==
    IF s = << >> THEN s
    ELSE IF IsSpace(s[1]) THEN LStrip(Tail(s)) ELSE s

RECURSIVE RStrip(_)
RStrip(s) ==
    IF s = << >> THEN s
    ELSE IF IsSpace(s[Len(s)]) THEN RStrip(SubSeq(s, 1, Len(s) - 1)) ELSE s

\* str.strip()
Strip(s) == RStrip(LStrip(s))

\* thinking_text.replace('<thinking>', '').replace('</thinking>', '')
RemoveTags(s) == SelectSeq(s, LAMBDA c : c \notin {OPEN, CLOSE})

\* re.search(r'<thinking>(.*?)</thinking>', s, re.DOTALL): the leftmost opening
\* tag that has a closing tag after it, and the nearest such closing tag.
OpenAt(s) ==
    {i \in 1..Len(s) : s[i] = OPEN /\ \E j \in (i + 1)..Len(s) : s[j] = CLOSE}

thinking_match(s) == OpenAt(s) # {}

group1(s) ==
    LET i == CHOOSE x \in OpenAt(s) : \A y \in OpenAt(s) : x <= y
        j == CHOOSE x \in (i + 1)..Len(s) :
                 s[x] = CLOSE /\ \A y \in (i + 1)..Len(s) : s[y] = CLOSE => x <= y
    IN  SubSeq(s, i + 1, j - 1)

\* ------------------------------------------------------------------ JSON

\* Where a value is handed on and used at many places, it is bound as the one
\* element of a set ({F(x) : x \in {v}}, \E x \in {v}), so that it is worked
\* out once.

\* dict.get(k, default)
Get(d, k, default) == IF k \in DOMAIN d THEN d[k] ELSE default

None == "None"

\* Event names, as they stand after 'event: ' once trimmed.
EvStatus == <<"response.status">>
EvThinkingDelta == <<"response.thinking.delta">>
EvThinking == <<"response.thinking">>
EvTextDelta == <<"response.text.delta">>
EvText == <<"response.text">>
EvToolResult == <<"response.tool_result">>
EvResponse == <<"response">>
\* current_event before any 'event: ' line
NoEvent == <<None>>

\* ------------------------------------------------------------------ lines

\* A line of the stream as response.iter_lines() yields it:
\*   [kind |-> "blank"]                       b'' (a keep-alive)
\*   [kind |-> "event", name |-> text]        'event: ' + name
\*   [kind |-> "data", pad |-> n, doc |-> d]  'data: ' + n blanks + d + n blanks
\*   [kind |-> "other"]                       any other non-empty line
\* and a document d is one of
\*   [t |-> "done"]              [DONE]
\*   [t |-> "array", items |-> s]  a JSON array of strings: text that starts with '['
\*   [t |-> "cut"]               text that starts with '[' and json.loads rejects
\*   [t |-> "bad"]               other text json.loads rejects
\*   [t |-> "num"]               a JSON number
\*   [t |-> "obj", obj |-> f]    a JSON object
EventLine(name) == [kind |-> "event", name |-> name]
DataLine(doc) == [kind |-> "data", pad |-> 0, doc |-> doc]
PaddedDataLine(doc) == [kind |-> "data", pad |-> 1, doc |-> doc]
Obj(f) == [t |-> "obj", obj |-> f]
DONE == [t |-> "done"]

\* line_decoded.startswith('event: ') / line.startswith('data: ')
IsEvent(line) == line.kind = "event"
IsData(line) == line.kind = "data"

\* line_decoded[7:].strip()
event_name(line) == Strip(line.name)

\* data_content = line_decoded[6:].strip(): the text of the document without the
\* blanks around it.
data_content(line) == [pad |-> 0, doc |-> line.doc]

\* IsDone taking no content for the sentinel.
NeverDone(content) == FALSE

\* data_content == '[DONE]'
IsDone(content) == content = [pad |-> 0, doc |-> DONE]

\* data_content.startswith('[')
StartsWithBracket(content) ==
    content.pad = 0 /\ content.doc.t \in {"done", "array", "cut"}

\* json.loads(data_content) raises json.JSONDecodeError
JSONDecodeError(content) == content.doc.t \in {"bad", "done", "cut"}

\* json.loads(data_content) is a dict
IsDict(content) == content.doc.t = "obj"

\* ------------------------------------------------------------------ timeline

Status(content) == [type |-> "status", content |-> content]
Thinking(content, content_index) ==
    [type |-> "thinking", content |-> content, content_index |-> content_index]
\* The entry the tag-wrapped branch of response.thinking.delta appends: it carries
\* no content_index.
ThinkingNoIndex(content) == [type |-> "thinking", content |-> content]

IsThinkingEntry(e) == e.type = "thinking"
IsThinkingOf(e, content_index) ==
    e.type = "thinking" /\ "content_index" \in DOMAIN e /\ e.content_index = content_index

\* The places of the thinking entries, and of those of content_index.
ThinkingAt(timeline) == {i \in 1..Len(timeline) : IsThinkingEntry(timeline[i])}
ThinkingOfAt(timeline, content_index) ==
    {i \in 1..Len(timeline) : IsThinkingOf(timeline[i], content_index)}

\* for i in range(len(timeline) - 1, -1, -1): if <match>: timeline[i]['content'] = c; break
\* where hits are the places that match.
UpdateLast(timeline, hits, c) ==
    IF hits = {} THEN timeline
    ELSE LET i == CHOOSE x \in hits : \A y \in hits : y <= x
         IN  [timeline EXCEPT ![i].content = c]

\* while len(thinking_updates) <= content_index: thinking_updates.append("")
RECURSIVE Extend(_, _)
Extend(thinking_updates, content_index) ==
    IF Len(thinking_updates) <= content_index
    THEN Extend(Append(thinking_updates, << >>), content_index)
    ELSE thinking_updates

\* ------------------------------------------------------------------ the live loop
\* CortexChat._retrieve_response, the body of `for line in response.iter_lines()`.
\* L is the record of the call's locals (response_lines, current_event,
\* planning_updates, thinking_updates, timeline, tools_used); self is the shared
\* CortexChat object (CORTEX_APP).  Each branch gives the locals after it, the Slack call site it
\* reaches (site) and the exception it raises (exc).  current_thinking, which only
\* feeds DEBUG prints, is left out.

Outcome(L, site, exc) == [L |-> L, site |-> site, exc |-> exc]

\* if self.slack_app and self.planning_message_ts and self.planning_channel
CanUpdate(self) ==
    self.slack_app /\ self.planning_message_ts # 0 /\ self.planning_channel # None

\* StatusEvent with the timeline entry put in front instead of appended.
StatusEventInFront(L, json_data, self) ==
    IF "message" \in DOMAIN json_data
    THEN Outcome([L EXCEPT !.planning_updates = Append(@, json_data["message"]),
                           !.timeline = <<Status(json_data["message"])>> \o @],
                 IF CanUpdate(self) THEN "status_preview" ELSE "none", None)
    ELSE Outcome(L, "none", None)

\* current_event == 'response.status' (cortex_chat.py 135-174)
StatusEvent(L, json_data, self) ==
    IF "message" \in DOMAIN json_data
    THEN LET status_msg == json_data["message"]
         IN  Outcome([L EXCEPT !.planning_updates = Append(@, status_msg),
                               !.timeline = Append(@, Status(status_msg))],
                     IF CanUpdate(self) THEN "status_preview" ELSE "none", None)
    ELSE Outcome(L, "none", None)

\* self._update_slack_with_thinking(planning_updates, thinking_updates), reached
\* from the three thinking branches: it returns at once unless CanUpdate.
ThinkingSite(self) == IF CanUpdate(self) THEN "thinking_preview" ELSE "none"

\* response.thinking.delta whose text holds <thinking>...</thinking> (183-198)
ThinkingDeltaTagged(L, thinking_text, self) ==
    LET clean_thinking == Strip(group1(thinking_text))
        n == Len(L.thinking_updates)
    IN  IF clean_thinking = << >> THEN Outcome(L, "none", None)
        ELSE IF n > 0
        THEN Outcome([L EXCEPT !.thinking_updates = [@ EXCEPT ![n] = clean_thinking],
                               !.timeline = UpdateLast(@, ThinkingAt(@),
                                                       Strip(clean_thinking))],
                     ThinkingSite(self), None)
        ELSE Outcome([L EXCEPT !.thinking_updates = Append(@, clean_thinking),
                               !.timeline = Append(@, ThinkingNoIndex(Strip(clean_thinking)))],
                     ThinkingSite(self), None)

\* ThinkingDeltaRaw with the fragment trimmed before it is accumulated.
ThinkingDeltaRawTrimmed(L, json_data, self) ==
    LET clean_text == Strip(RemoveTags(json_data["text"]))
        content_index == Get(json_data, "content_index", 0)
        slots == Extend(L.thinking_updates, content_index)
        appended == IF slots[content_index + 1] = << >>
                    THEN Append(L.timeline, Thinking(clean_text, content_index))
                    ELSE L.timeline
        grown == [slots EXCEPT ![content_index + 1] = @ \o clean_text]
    IN  IF clean_text = << >> THEN Outcome(L, "none", None)
        ELSE Outcome([L EXCEPT !.thinking_updates = grown,
                               !.timeline = UpdateLast(appended, ThinkingOfAt(appended, content_index),
                                   Strip(grown[content_index + 1]))],
                     ThinkingSite(self), None)

\* ThinkingDeltaRaw writing the text of the slot into the last Thinking entry of
\* the timeline, whatever its index.
ThinkingDeltaRawLastEntry(L, json_data, self) ==
    LET clean_text == RemoveTags(json_data["text"])
        content_index == Get(json_data, "content_index", 0)
        slots == Extend(L.thinking_updates, content_index)
        first == slots[content_index + 1] = << >>
        appended == IF first
                    THEN Append(L.timeline, Thinking(Strip(clean_text), content_index))
                    ELSE L.timeline
        grown == [slots EXCEPT ![content_index + 1] = @ \o clean_text]
    IN  IF clean_text = << >> THEN Outcome(L, "none", None)
        ELSE Outcome([L EXCEPT !.thinking_updates = grown,
                               !.timeline = UpdateLast(appended, ThinkingAt(appended),
                                   Strip(grown[content_index + 1]))],
                     ThinkingSite(self), None)

\* response.thinking.delta carrying a raw fragment (199-228)
ThinkingDeltaRaw(L, json_data, self) ==
    LET clean_text == RemoveTags(json_data["text"])
        content_index == Get(json_data, "content_index", 0)
        slots == Extend(L.thinking_updates, content_index)
        first == slots[content_index + 1] = << >>
        appended == IF first
                    THEN Append(L.timeline, Thinking(Strip(clean_text), content_index))
                    ELSE L.timeline
        grown == [slots EXCEPT ![content_index + 1] = @ \o clean_text]
    IN  IF clean_text = << >> THEN Outcome(L, "none", None)
        ELSE Outcome([L EXCEPT !.thinking_updates = grown,
                               !.timeline = UpdateLast(appended, ThinkingOfAt(appended, content_index),
                                   Strip(grown[content_index + 1]))],
                     ThinkingSite(self), None)

\* current_event == 'response.thinking.delta' (177-229)
ThinkingDeltaEvent(L, json_data, self) ==
    IF "text" \notin DOMAIN json_data THEN Outcome(L, "none", None)
    ELSE IF thinking_match(json_data["text"])
         THEN ThinkingDeltaTagged(L, json_data["text"], self)
         ELSE ThinkingDeltaRaw(L, json_data, self)

\* ThinkingEvent adding the complete text to what the slot and the entry hold.
ThinkingEventAppending(L, json_data, self) ==
    IF "text" \notin DOMAIN json_data \/ ~thinking_match(json_data["text"])
    THEN Outcome(L, "none", None)
    ELSE LET clean_thinking == Strip(group1(json_data["text"]))
             content_index == Get(json_data, "content_index", 0)
             slots == Extend(L.thinking_updates, content_index)
             text == slots[content_index + 1] \o clean_thinking
             timeline_updated ==
                 ThinkingOfAt(L.timeline, content_index) # {}
         IN  IF clean_thinking = << >> THEN Outcome(L, "none", None)
             ELSE Outcome(
                 [L EXCEPT !.thinking_updates = [slots EXCEPT ![content_index + 1] = text],
                           !.timeline =
                               IF timeline_updated
                               THEN UpdateLast(@, ThinkingOfAt(@, content_index),
                                               Strip(text))
                               ELSE Append(@, Thinking(Strip(text), content_index))],
                 ThinkingSite(self), None)

\* current_event == 'response.thinking' (231-265)
ThinkingEvent(L, json_data, self) ==
    IF "text" \notin DOMAIN json_data \/ ~thinking_match(json_data["text"])
    THEN Outcome(L, "none", None)
    ELSE LET clean_thinking == Strip(group1(json_data["text"]))
             content_index == Get(json_data, "content_index", 0)
             slots == Extend(L.thinking_updates, content_index)
             timeline_updated ==
                 ThinkingOfAt(L.timeline, content_index) # {}
         IN  IF clean_thinking = << >> THEN Outcome(L, "none", None)
             ELSE Outcome(
                 [L EXCEPT !.thinking_updates =
                               [slots EXCEPT ![content_index + 1] = clean_thinking],
                           !.timeline =
                               IF timeline_updated
                               THEN UpdateLast(@, ThinkingOfAt(@, content_index),
                                               Strip(clean_thinking))
                               ELSE Append(@, Thinking(Strip(clean_thinking),
                                                       content_index))],
                 ThinkingSite(self), None)

\* ContentItem appending "Using <name>" for every tool_use item.
ContentItemRepeating(L, content_item) ==
    IF Get(content_item, "type", None) = "tool_use"
    THEN LET tool_data == Get(content_item, "tool_use", << >>)
             tool_name == Get(tool_data, "name", <<"unknown">>)
             text == <<"Using ">> \o tool_name
         IN  [L EXCEPT !.tools_used =
                           IF \E i \in 1..Len(@) : @[i] = tool_name THEN @
                           ELSE Append(@, tool_name),
                       !.planning_updates = Append(@, text),
                       !.timeline = Append(@, Status(text))]
    ELSE L

\* ContentItem recording "Using <name>" in the status list only.
ContentItemUntimed(L, content_item) ==
    IF Get(content_item, "type", None) = "tool_use"
    THEN LET tool_data == Get(content_item, "tool_use", << >>)
             tool_name == Get(tool_data, "name", <<"unknown">>)
             text == <<"Using ">> \o tool_name
         IN  IF \E i \in 1..Len(L.tools_used) : L.tools_used[i] = tool_name THEN L
             ELSE [L EXCEPT !.tools_used = Append(@, tool_name),
                            !.planning_updates = Append(@, text)]
    ELSE L

\* json_data.get('object') == 'message.delta': one content item (279-337).  Text
\* items only feed current_thinking and tool_result items only DEBUG prints.
ContentItem(L, content_item) ==
    IF Get(content_item, "type", None) = "tool_use"
    THEN LET tool_data == Get(content_item, "tool_use", << >>)
             tool_name == Get(tool_data, "name", <<"unknown">>)
             text == <<"Using ">> \o tool_name
         IN  IF \E i \in 1..Len(L.tools_used) : L.tools_used[i] = tool_name THEN L
             ELSE [L EXCEPT !.tools_used = Append(@, tool_name),
                            !.planning_updates = Append(@, text),
                            !.timeline = Append(@, Status(text))]
    ELSE L

RECURSIVE ContentItems(_, _)
ContentItems(L, content) ==
    IF content = << >> THEN L
    ELSE CHOOSE L2 \in {ContentItems(L1, Tail(content)) :
                             L1 \in {ContentItem(L, Head(content))}} : TRUE

MessageDelta(L, json_data) ==
    LET delta == Get(json_data, "delta", << >>)
    IN  IF "content" \in DOMAIN delta
        THEN Outcome(ContentItems(L, delta["content"]), "none", None)
        ELSE Outcome(L, "none", None)

REASONING_AGENT_STOP == <<"REASONING_AGENT_STOP">>

\* LegacyStatus taking the sentinel for a status like another.
LegacyStatusUnfiltered(L, json_data, self) ==
    LET status == Get(json_data, "status", << >>)
        status_msg == Get(json_data, "status_message", << >>)
        updates == Append(L.planning_updates, status_msg)
    IN  IF "status" \in DOMAIN json_data /\ status # << >> /\ status_msg # << >>
        THEN Outcome([L EXCEPT !.planning_updates = updates,
                               !.timeline = Append(@, Status(status_msg))],
                     IF self.slack_app /\ self.planning_message_ts # 0
                        /\ Len(updates) % 2 = 0
                     THEN "planning_preview" ELSE "none", None)
        ELSE Outcome(L, "none", None)

\* json_data.get('object') is None (340-419)
LegacyStatus(L, json_data, self) ==
    LET status == Get(json_data, "status", << >>)
        status_msg == Get(json_data, "status_message", << >>)
        updates == Append(L.planning_updates, status_msg)
    IN  IF "status" \in DOMAIN json_data /\ status # << >>
           /\ status # REASONING_AGENT_STOP /\ status_msg # << >>
        THEN Outcome([L EXCEPT !.planning_updates = updates,
                               !.timeline = Append(@, Status(status_msg))],
                     IF self.slack_app /\ self.planning_message_ts # 0
                        /\ Len(updates) % 2 = 0
                     THEN "planning_preview" ELSE "none", None)
        ELSE Outcome(L, "none", None)

\* The dispatch on a parsed data line (131-419).
Dispatch(L, content, self) ==
    LET json_data == content.doc.obj
        isdict == IsDict(content)
    IN  CASE L.current_event = EvStatus ->
                 IF isdict THEN StatusEvent(L, json_data, self)
                 ELSE Outcome(L, "none", "TypeError")
          [] L.current_event = EvThinkingDelta ->
                 IF isdict THEN ThinkingDeltaEvent(L, json_data, self)
                 ELSE Outcome(L, "none", "TypeError")
          [] L.current_event = EvThinking ->
                 IF isdict THEN ThinkingEvent(L, json_data, self)
                 ELSE Outcome(L, "none", "TypeError")
          [] L.current_event = EvResponse -> Outcome(L, "none", None)
          [] OTHER ->
                 IF ~isdict THEN Outcome(L, "none", "AttributeError")
                 ELSE IF Get(json_data, "object", None) = "message.delta"
                 THEN MessageDelta(L, json_data)
                 ELSE IF "object" \notin DOMAIN json_data
                 THEN LegacyStatus(L, json_data, self)
                 ELSE Outcome(L, "none", None)

\* LoopBody leaving the loop on a data line that json.loads rejects.
LoopBodyAborting(L, line, self) ==
    LET L1 == [L EXCEPT !.response_lines = Append(@, line)]
        content == data_content(line)
    IN  IF IsEvent(line)
        THEN [brk |-> FALSE]
             @@ Outcome([L1 EXCEPT !.current_event = event_name(line)], "none", None)
        ELSE IF ~IsData(line) THEN [brk |-> FALSE] @@ Outcome(L1, "none", None)
        ELSE IF IsDone(content) THEN [brk |-> TRUE] @@ Outcome(L1, "none", None)
        ELSE IF StartsWithBracket(content) THEN [brk |-> FALSE] @@ Outcome(L1, "none", None)
        ELSE IF JSONDecodeError(content) THEN [brk |-> TRUE] @@ Outcome(L1, "none", None)
        ELSE [brk |-> FALSE] @@ Dispatch(L1, content, self)

\* LoopBody ending the frame at a line that is no data line: the event name is
\* forgotten there.
LoopBodyResetting(L, line, self) ==
    LET L1 == [L EXCEPT !.response_lines = Append(@, line)]
        content == data_content(line)
    IN  IF IsEvent(line)
        THEN [brk |-> FALSE]
             @@ Outcome([L1 EXCEPT !.current_event = event_name(line)], "none", None)
        ELSE IF ~IsData(line)
        THEN [brk |-> FALSE] @@ Outcome([L1 EXCEPT !.current_event = NoEvent], "none", None)
        ELSE IF IsDone(content) THEN [brk |-> TRUE] @@ Outcome(L1, "none", None)
        ELSE IF StartsWithBracket(content) \/ JSONDecodeError(content)
        THEN [brk |-> FALSE] @@ Outcome(L1, "none", None)
        ELSE [brk |-> FALSE] @@ Dispatch(L1, content, self)

\* One pass of the loop body (112-422) over a non-empty line; brk says that the
\* loop is left by `break`.
LoopBody(L, line, self) ==
    LET L1 == [L EXCEPT !.response_lines = Append(@, line)]
        content == data_content(line)
    IN  IF IsEvent(line)
        THEN [brk |-> FALSE]
             @@ Outcome([L1 EXCEPT !.current_event = event_name(line)], "none", None)
        ELSE IF ~IsData(line) THEN [brk |-> FALSE] @@ Outcome(L1, "none", None)
        ELSE IF IsDone(content) THEN [brk |-> TRUE] @@ Outcome(L1, "none", None)
        ELSE IF StartsWithBracket(content) \/ JSONDecodeError(content)
        THEN [brk |-> FALSE] @@ Outcome(L1, "none", None)
        ELSE [brk |-> FALSE] @@ Dispatch(L1, content, self)

\* for line in response.iter_lines() (112-422) over the non-blank lines of a
\* whole stream, without Slack: the locals when the loop is left.
RECURSIVE LoopOver(_, _, _)
LoopOver(L, lines, self) ==
    IF lines = << >> THEN L
    ELSE CHOOSE L2 \in {IF out.brk \/ out.exc # None THEN out.L
                         ELSE LoopOver(out.L, Tail(lines), self) :
                             out \in {LoopBody(L, Head(lines), self)}} : TRUE

\* ------------------------------------------------------------------ the parser
\* CortexResponseParser (cortex_response_parser.py).

\* _parse_delta_content (559-576)
RECURSIVE parse_delta_content(_)
parse_delta_content(content) ==
    IF content = << >> THEN [text |-> << >>, tool_use |-> << >>, tool_results |-> << >>]
    ELSE LET entry == Head(content)
             entry_type == Get(entry, "type", None)
             rest == parse_delta_content(Tail(content))
         IN  CASE entry_type = "text" ->
                      [rest EXCEPT !.text = Get(entry, "text", << >>) \o @]
               [] entry_type = "tool_use" ->
                      [rest EXCEPT !.tool_use = <<Get(entry, "tool_use", << >>)>> \o @]
               [] entry_type = "tool_results" ->
                      [rest EXCEPT !.tool_results =
                                       <<Get(entry, "tool_results", << >>)>> \o @]
               [] OTHER -> rest

\* _process_sse_line (522-557): the 'type' of what it returns, its content for a
\* message, and "TypeError" where `'content' in data` is asked of a number.
process_sse_line(line) ==
    LET json_str == data_content(line)
        data == json_str.doc.obj
    IN  IF ~IsData(line) THEN [type |-> "none"]
        ELSE IF IsDone(json_str) THEN [type |-> "done"]
        ELSE IF StartsWithBracket(json_str) THEN [type |-> "trace"]
        ELSE IF JSONDecodeError(json_str) THEN [type |-> "error"]
        ELSE IF ~IsDict(json_str) THEN [type |-> "TypeError"]
        ELSE IF "content" \in DOMAIN data /\ "role" \in DOMAIN data
                /\ data["role"] = "assistant"
        THEN [type |-> "final_message"]
        ELSE IF Get(data, "object", None) = "message.delta"
                /\ "content" \in DOMAIN Get(data, "delta", << >>)
        THEN [type |-> "message", content |-> parse_delta_content(data["delta"]["content"])]
        ELSE [type |-> "other"]

\* The events whose data lines the first block of the loop has dealt with (280).
HandledEvents == {EvTextDelta, EvText, EvThinkingDelta, EvThinking, EvStatus}

\* FirstBlock adding the text of a response.text frame as it adds a delta's.
FirstBlockWithComplete(P, json_data) ==
    IF P.current_event \in {EvTextDelta, EvText}
    THEN IF "text" \in DOMAIN json_data
         THEN [P EXCEPT !.text = @ \o json_data["text"]]
         ELSE P
    ELSE IF P.current_event = EvStatus /\ "message" \in DOMAIN json_data
    THEN [P EXCEPT !.status_messages = Append(@, json_data["message"])]
    ELSE P

\* FirstBlock taking a tool result that has a tool_use_id and no content.
FirstBlockWithoutContent(P, json_data) ==
    CASE P.current_event = EvTextDelta ->
             IF "text" \in DOMAIN json_data
             THEN [P EXCEPT !.text = @ \o json_data["text"]]
             ELSE P
      [] P.current_event = EvToolResult ->
             IF "tool_use_id" \in DOMAIN json_data
             THEN [P EXCEPT !.tool_results =
                                Append(@, [tool_use_id |-> json_data["tool_use_id"],
                                           content |-> Get(json_data, "content", << >>)])]
             ELSE P
      [] OTHER -> P

\* The first block of the loop of parse_sse_response (231-274) on a data line that
\* json.loads accepted as a dict.  P is the record of the parser's locals.
FirstBlock(P, json_data) ==
    CASE P.current_event \in {EvThinkingDelta, EvThinking} ->
             IF "text" \in DOMAIN json_data /\ thinking_match(json_data["text"])
                /\ Strip(group1(json_data["text"])) # << >>
             THEN [P EXCEPT !.accumulated_thinking =
                                Append(@, Strip(group1(json_data["text"])))]
             ELSE P
      [] P.current_event = EvStatus ->
             IF "message" \in DOMAIN json_data
             THEN [P EXCEPT !.status_messages = Append(@, json_data["message"])]
             ELSE P
      [] P.current_event = EvTextDelta ->
             IF "text" \in DOMAIN json_data
             THEN [P EXCEPT !.text = @ \o json_data["text"]]
             ELSE P
      [] P.current_event = EvText -> P
      [] P.current_event = EvToolResult ->
             IF "content" \in DOMAIN json_data /\ "tool_use_id" \in DOMAIN json_data
             THEN [P EXCEPT !.tool_results =
                                Append(@, [tool_use_id |-> json_data["tool_use_id"],
                                           content |-> json_data["content"]])]
             ELSE P
      [] OTHER -> P

\* The events under which the first block asks `'<key>' in json_data`.
AsksKey == {EvThinkingDelta, EvThinking, EvStatus, EvTextDelta, EvToolResult}

\* SecondBlock taking the legacy frames of every event.
SecondBlockUnfiltered(P, line) ==
    LET parsed_line == process_sse_line(line)
    IN  IF parsed_line.type = "TypeError" THEN [P EXCEPT !.exc = "TypeError"]
        ELSE IF parsed_line.type = "done" THEN [P EXCEPT !.done = TRUE]
        ELSE IF parsed_line.type = "message"
        THEN [P EXCEPT !.text = @ \o parsed_line.content.text,
                       !.tool_use = @ \o parsed_line.content.tool_use,
                       !.tool_results = @ \o parsed_line.content.tool_results]
        ELSE P

\* The second block (276-295): the legacy path over the same line.
SecondBlock(P, line) ==
    LET parsed_line == process_sse_line(line)
    IN  IF parsed_line.type = "TypeError" THEN [P EXCEPT !.exc = "TypeError"]
        ELSE IF parsed_line.type = "done" THEN [P EXCEPT !.done = TRUE]
        ELSE IF P.current_event \notin HandledEvents /\ parsed_line.type = "message"
        THEN [P EXCEPT !.text = @ \o parsed_line.content.text,
                       !.tool_use = @ \o parsed_line.content.tool_use,
                       !.tool_results = @ \o parsed_line.content.tool_results]
        ELSE P

\* `'<key>' in json_data` holds of a list that has the string <key> among its
\* elements, and json_data['<key>'] then raises TypeError: whether the first
\* block (234-271) comes to subscript the list `items` under current_event.
Subscripts(current_event, items) ==
    LET in_json_data(key) == \E i \in 1..Len(items) : items[i] = key
    IN  CASE current_event \in {EvThinkingDelta, EvThinking, EvTextDelta} ->
                 in_json_data("text")
          [] current_event = EvStatus -> in_json_data("message")
          [] current_event = EvToolResult ->
                 in_json_data("content") /\ in_json_data("tool_use_id")
          [] OTHER -> FALSE

\* One pass of `for line in sse_lines` (218-295).
ParseLine(P, line) ==
    LET content == data_content(line)
    IN  IF IsEvent(line) THEN [P EXCEPT !.current_event = event_name(line)]
        ELSE IF ~IsData(line) THEN SecondBlock(P, line)
        ELSE IF IsDone(content) THEN [P EXCEPT !.done = TRUE]
        ELSE IF JSONDecodeError(content) THEN SecondBlock(P, line)
        ELSE IF IsDict(content) THEN SecondBlock(FirstBlock(P, content.doc.obj), line)
        ELSE IF content.doc.t = "num" /\ P.current_event \in AsksKey
        THEN [P EXCEPT !.exc = "TypeError"]
        ELSE IF content.doc.t = "array" /\ Subscripts(P.current_event, content.doc.items)
        THEN [P EXCEPT !.exc = "TypeError"]
        ELSE SecondBlock(P, line)

RECURSIVE ParseLines(_, _)
ParseLines(P, sse_lines) ==
    IF sse_lines = << >> \/ P.done \/ P.exc # None THEN P
    ELSE CHOOSE P2 \in {ParseLines(P1, Tail(sse_lines)) :
                             P1 \in {ParseLine(P, Head(sse_lines))}} : TRUE

ParserInit ==
    [status_messages |-> << >>, text |-> << >>, tool_use |-> << >>,
     tool_results |-> << >>, accumulated_thinking |-> << >>,
     current_event |-> NoEvent, done |-> FALSE, exc |-> None]

ParsedMessage(role, content) == [role |-> role, content |-> content]

\* The messages built once the lines are read (297-330).
ThinkingMessages(accumulated_thinking) ==
    [i \in 1..Len(accumulated_thinking) |->
        ParsedMessage("assistant",
                      <<[type |-> "thinking", text |-> accumulated_thinking[i]]>>)]

AccumulatedMessage(P) ==
    IF P.text = << >> /\ P.tool_use = << >> /\ P.tool_results = << >> THEN << >>
    ELSE <<ParsedMessage("assistant",
             (IF P.text # << >> THEN <<[type |-> "text", text |-> P.text]>> ELSE << >>)
             \o [i \in 1..Len(P.tool_use) |->
                    [type |-> "tool_use", tool_use |-> P.tool_use[i]]]
             \o [i \in 1..Len(P.tool_results) |->
                    [type |-> "tool_results", tool_results |-> P.tool_results[i]]])>>

\* Response with the message of the accumulated content placed first.
ResponseAccumulatedFirst(P) ==
    [exc |-> P.exc,
     messages |-> AccumulatedMessage(P)
                  \o ThinkingMessages(SelectSeq(P.accumulated_thinking,
                                                LAMBDA t : Strip(t) # << >>)),
     suggestions |-> << >>,
     status_messages |-> P.status_messages]

\* parse_sse_response (203-332): the CortexResponse, or the exception it raises.
Response(P) ==
    [exc |-> P.exc,
     messages |-> ThinkingMessages(SelectSeq(P.accumulated_thinking,
                                             LAMBDA t : Strip(t) # << >>))
                  \o AccumulatedMessage(P),
     suggestions |-> << >>,
     status_messages |-> P.status_messages]

parse_sse_response(sse_lines) ==
    CHOOSE response \in {Response(P) : P \in {ParseLines(ParserInit, sse_lines)}} : TRUE

\* ------------------------------------------------------------------ the summary

RECURSIVE Flatten(_)
Flatten(seqs) == IF seqs = << >> THEN << >> ELSE Head(seqs) \o Flatten(Tail(seqs))

\* text_content joining the text of the items of every type.
text_content_of_any_type(message) ==
    Flatten([i \in 1..Len(message.content) |-> Get(message.content[i], "text", << >>)])

\* ParsedMessage.text_content (97-104)
text_content(message) ==
    Flatten([i \in 1..Len(message.content) |->
                IF Get(message.content[i], "type", None) = "text"
                THEN Get(message.content[i], "text", << >>) ELSE << >>])

\* ParsedMessage.tool_results (121-139): the ToolResult objects of one message.
ToolResult(data) ==
    [tool_use_id |-> Get(data, "tool_use_id", << >>), content |-> Get(data, "content", << >>)]

tool_results(message) ==
    Flatten([i \in 1..Len(message.content) |->
                LET item == message.content[i]
                    type == Get(item, "type", None)
                IN  IF type = "tool_results"
                    THEN <<ToolResult(Get(item, "tool_results", << >>))>>
                    ELSE IF type = "tool_result"
                    THEN <<ToolResult(Get(item, "tool_result", << >>))>>
                    ELSE << >>])

\* ParsedMessage.tool_uses (106-119), counted.
tool_uses(message) ==
    SelectSeq(message.content, LAMBDA item : Get(item, "type", None) = "tool_use")

\* The blobs of a tool result that hold key k under 'json'.
BlobsWith(content, k) ==
    {i \in 1..Len(content) : "json" \in DOMAIN content[i] /\ k \in DOMAIN content[i]["json"]}

\* sql_query returning the sql of the last blob that has one.
sql_query_of_last(tool_result) ==
    LET hits == BlobsWith(tool_result.content, "sql")
    IN  IF hits = {} THEN None
        ELSE tool_result.content[CHOOSE i \in hits : \A j \in hits : j <= i]["json"]["sql"]

\* ToolResult.sql_query (33-46): the first blob's sql, or None.
sql_query(tool_result) ==
    LET hits == BlobsWith(tool_result.content, "sql")
    IN  IF hits = {} THEN None
        ELSE tool_result.content[CHOOSE i \in hits : \A j \in hits : i <= j]["json"]["sql"]

\* `if sql:` over sql_query
HasSql(tool_result) ==
    BlobsWith(tool_result.content, "sql") # {} /\ sql_query(tool_result) # << >>

\* ToolResult.search_results (48-56)
search_results(tool_result) ==
    Flatten([i \in 1..Len(tool_result.content) |->
                IF i \in BlobsWith(tool_result.content, "searchResults")
                THEN tool_result.content[i]["json"]["searchResults"] ELSE << >>])

VerificationKeys ==
    {"verification", "validated", "query_verified", "verified_query_used", "query_validation"}

Restrict(f, keys) == [k \in (DOMAIN f) \cap keys |-> f[k]]

\* ToolResult.verification_info (58-76): a later blob's value replaces an earlier one's.
RECURSIVE VerificationOf(_)
VerificationOf(content) ==
    IF content = << >> THEN << >>
    ELSE LET last == content[Len(content)]
             before == VerificationOf(SubSeq(content, 1, Len(content) - 1))
         IN  IF "json" \in DOMAIN last
             THEN Restrict(last["json"], VerificationKeys) @@ before
             ELSE before

verification_info(tool_result) == VerificationOf(tool_result.content)

\* is_verified_query counting query_validation as well.
is_verified_query_or_validation(tool_result) ==
    LET verification == verification_info(tool_result)
    IN  \E key \in VerificationKeys : Get(verification, key, FALSE)

\* ToolResult.is_verified_query (78-88); the flags are JSON booleans.
is_verified_query(tool_result) ==
    LET verification == verification_info(tool_result)
    IN  \/ Get(verification, "verified_query_used", FALSE)
        \/ Get(verification, "query_verified", FALSE)
        \/ Get(verification, "validated", FALSE)
        \/ Get(verification, "verification", FALSE)

\* for message in response.messages: for tool_result in message.tool_results
AllToolResults(response) ==
    Flatten([i \in 1..Len(response.messages) |-> tool_results(response.messages[i])])

\* CortexResponse.final_text (156-162)
final_text(response) ==
    LET roles == {i \in 1..Len(response.messages) : response.messages[i].role = "assistant"}
    IN  IF roles = {} THEN << >>
        ELSE text_content(response.messages[CHOOSE i \in roles : \A j \in roles : j <= i])

\* sql_queries keeping the first occurrence of every query only.
sql_queries_deduplicated(response) ==
    LET results == SelectSeq(AllToolResults(response), HasSql)
        queries == [i \in 1..Len(results) |-> sql_query(results[i])]
        firsts == SelectSeq([i \in 1..Len(queries) |-> i],
                            LAMBDA i : \A j \in 1..(i - 1) : queries[j] # queries[i])
    IN  [n \in 1..Len(firsts) |-> queries[firsts[n]]]

\* CortexResponse.sql_queries (164-173)
sql_queries(response) ==
    LET results == SelectSeq(AllToolResults(response), HasSql)
    IN  [i \in 1..Len(results) |-> sql_query(results[i])]

\* CortexResponse.search_results (175-182)
all_search_results(response) ==
    LET results == AllToolResults(response)
    IN  Flatten([i \in 1..Len(results) |-> search_results(results[i])])

\* Citation that never names the source.
CitationWithoutSource(result) ==
    result["doc_title"] \o <<": ">> \o result["text"]

\* CortexResponse.citations (184-194)
Citation(result) ==
    result["doc_title"] \o <<": ">> \o result["text"]
    \o (IF "doc_id" \in DOMAIN result
        THEN <<" [Source: ">> \o result["doc_id"] \o <<"]">> ELSE << >>)

citations(response) ==
    LET cited == SelectSeq(all_search_results(response),
                           LAMBDA result : "doc_title" \in DOMAIN result
                                           /\ "text" \in DOMAIN result)
    IN  [i \in 1..Len(cited) |-> Citation(cited[i])]

\* extract_summary (592-601): the thinking texts of the messages.
ThinkingTexts(response) ==
    LET items == Flatten([i \in 1..Len(response.messages) |-> response.messages[i].content])
        thinking == SelectSeq(items, LAMBDA c : Get(c, "type", None) = "thinking"
                                                /\ Strip(Get(c, "text", << >>)) # << >>)
    IN  [i \in 1..Len(thinking) |-> Strip(Get(thinking[i], "text", << >>))]

\* MergeVerification in which the first tool result to carry a key keeps it.
RECURSIVE MergeVerificationKeepingFirst(_)
MergeVerificationKeepingFirst(results) ==
    IF results = << >> THEN << >>
    ELSE MergeVerificationKeepingFirst(SubSeq(results, 1, Len(results) - 1))
         @@ verification_info(results[Len(results)])

\* MergeVerification keeping the verification of the last tool result only.
MergeVerificationOfLast(results) ==
    IF results = << >> THEN << >>
    ELSE verification_info(results[Len(results)])

\* extract_summary (603-609): verification_info.update(...) over the tool results.
RECURSIVE MergeVerification(_)
MergeVerification(results) ==
    IF results = << >> THEN << >>
    ELSE verification_info(results[Len(results)])
         @@ MergeVerification(SubSeq(results, 1, Len(results) - 1))

\* extract_summary (578-621)
extract_summary(response) ==
    [text |-> final_text(response),
     sql_queries |-> sql_queries(response),
     citations |-> citations(response),
     suggestions |-> response.suggestions,
     tool_uses |-> Len(Flatten([i \in 1..Len(response.messages) |->
                                   tool_uses(response.messages[i])])),
     search_results_count |-> Len(all_search_results(response)),
     verification_info |-> MergeVerification(AllToolResults(response)),
     verified_query_used |->
         \E i \in 1..Len(AllToolResults(response)) :
             is_verified_query(AllToolResults(response)[i]),
     planning_updates |-> ThinkingTexts(response)]

\* _handle_error (583-595): the value it returns.
ErrorSummary(error_msg) ==
    [text |-> <<"Error: ">> \o error_msg, sql_queries |-> << >>, citations |-> << >>]

TimeoutMessage == <<"Request took longer than 120 seconds">>
RequestErrorMessage(e) == <<"Request error: ", e>>
UnexpectedErrorMessage(e) == <<"Unexpected error: ", e>>

\* ------------------------------------------------------------------ state

\* The requests: the Slack events handle_message_event is called for.  Request r
\* comes from channel Channel(r); the progress message chat() posts for it gets
\* the timestamp r (0 is None).
Req == {1, 2}
Channel(r) == IF r = 1 THEN "C1" ELSE "C2"

VARIABLES
    pc,            \* where each request stands
    frame,         \* the locals of each request's _retrieve_response call
    result,        \* what chat() returned to each request
    CORTEX_APP,    \* the one CortexChat object of app.py and its attributes
    channel_id,    \* app._channel_id, set by set_slack_app
    slack_calls,   \* the Slack API calls of the latest step, in order
    call           \* the latest direct call of a function: its arguments and value

vars == <<pc, frame, result, CORTEX_APP, channel_id, slack_calls, call>>

NoCall == [op |-> "none"]

NoResult == [pending |-> TRUE]

\* The locals at line 98-111.
FrameInit ==
    [response_lines |-> << >>, current_event |-> NoEvent, planning_updates |-> << >>,
     thinking_updates |-> << >>, timeline |-> << >>, tools_used |-> << >>]

\* CortexChat.__init__ (16-21); the attributes _retrieve_response stores later are
\* absent until has_results.
AppInit ==
    [slack_say |-> 0, slack_app |-> FALSE, planning_message_ts |-> 0,
     planning_channel |-> None, has_results |-> FALSE, planning_steps |-> << >>,
     thinking_steps |-> << >>, timeline |-> << >>, sql_queries |-> << >>,
     verification_info |-> << >>, verified_query_used |-> FALSE]

\* ------------------------------------------------------------------ Slack

\* say(...) through self.slack_say, the say of request `self.slack_say`.
Say(r, self, kind, ok) ==
    [api |-> "say", by |-> r, channel |-> Channel(self.slack_say), ts |-> 0,
     kind |-> kind, ok |-> ok]

\* self.slack_app.client.chat_update(channel=..., ts=..., ...)
ChatUpdate(r, channel, ts, kind, ok) ==
    [api |-> "chat_update", by |-> r, channel |-> channel, ts |-> ts,
     kind |-> kind, ok |-> ok]

\* What the call site a line reached does, the chat_update succeeding or not
\* (ok_u) and the say after it succeeding or not (ok_s): the calls made and the
\* exception that leaves the site.
Preview(r, site, self, chan, ok_u, ok_s) ==
    CASE site = "none" -> [calls |-> << >>, exc |-> None]
      \* 145-173 and _update_slack_with_thinking (640-715): try ... except Exception
      [] site \in {"status_preview", "thinking_preview"} ->
             [calls |-> <<ChatUpdate(r, self.planning_channel, self.planning_message_ts,
                                     site, ok_u)>>,
              exc |-> None]
      \* 356-410: the except branch posts through slack_say, outside any try
      [] site = "planning_preview" ->
             IF chan = None THEN [calls |-> << >>, exc |-> None]
             ELSE LET update == ChatUpdate(r, chan, self.planning_message_ts, site, ok_u)
                  IN  IF ok_u THEN [calls |-> <<update>>, exc |-> None]
                      ELSE IF self.slack_say = 0 THEN [calls |-> <<update>>, exc |-> None]
                      ELSE [calls |-> <<update, Say(r, self, "progress_update", ok_s)>>,
                            exc |-> IF ok_s THEN None ELSE "SlackApiError"]

\* _handle_error (583-595) after the calls made so far: the say may raise, and
\* then chat() raises.
handle_error(r, self, calls, error_msg, ok_e) ==
    IF self.slack_say = 0
    THEN [calls |-> calls, pc |-> "returned", result |-> ErrorSummary(error_msg)]
    ELSE [calls |-> Append(calls, Say(r, self, "error", ok_e)),
          pc |-> IF ok_e THEN "returned" ELSE "raised",
          result |-> IF ok_e THEN ErrorSummary(error_msg) ELSE NoResult]

\* ------------------------------------------------------------------ after the loop

\* has_sse_data (425)
has_sse_data(response_lines) ==
    \E i \in 1..Len(response_lines) : IsData(response_lines[i])

\* parse_json_response('\n'.join(response_lines)) (334-365).  The joined text is a
\* JSON document when the body was one line holding one: [kind |-> "json", body |-> f].
parse_json_response(response_lines) ==
    IF Len(response_lines) = 1 /\ response_lines[1].kind = "json"
    THEN LET data == response_lines[1].body
         IN  [exc |-> None,
              messages |-> IF "message" \in DOMAIN data
                           THEN <<ParsedMessage(Get(data["message"], "role", "assistant"),
                                                Get(data["message"], "content", << >>))>>
                           ELSE << >>,
              suggestions |-> Get(data, "suggestions", << >>),
              status_messages |-> << >>]
    ELSE [exc |-> "JSONDecodeError"]

\* 424-430
Parse(response_lines) ==
    IF has_sse_data(response_lines) THEN parse_sse_response(response_lines)
    ELSE parse_json_response(response_lines)

\* 444-452: the attributes stored on the shared object.
Store(self, L, summary) ==
    [self EXCEPT !.has_results = TRUE,
                 !.planning_steps = L.planning_updates,
                 !.thinking_steps =
                     LET kept == SelectSeq(L.thinking_updates, LAMBDA c : Strip(c) # << >>)
                     IN  [i \in 1..Len(kept) |-> Strip(kept[i])],
                 !.timeline = L.timeline,
                 !.sql_queries = Get(summary, "sql_queries", << >>),
                 !.verification_info = Get(summary, "verification_info", << >>),
                 !.verified_query_used = Get(summary, "verified_query_used", FALSE)]

\* Completion without the test of planning_updates at 455.
CompletionUnconditional(r, self, L, ok_u, ok_s) ==
    LET fallback == IF self.slack_say = 0 THEN [calls |-> << >>, exc |-> None]
                    ELSE [calls |-> <<Say(r, self, "completed_fallback", ok_s)>>,
                          exc |-> IF ok_s THEN None ELSE "SlackApiError"]
        update == ChatUpdate(r, self.planning_channel, self.planning_message_ts,
                             "completed", ok_u)
    IN  IF self.slack_app /\ self.planning_message_ts # 0
        THEN IF self.planning_channel = None THEN fallback
             ELSE IF ok_u THEN [calls |-> <<update>>, exc |-> None]
             ELSE [calls |-> <<update>> \o fallback.calls, exc |-> fallback.exc]
        ELSE fallback

\* 454-545: the completion message; the two fallback says stand outside any try.
Completion(r, self, L, ok_u, ok_s) ==
    LET fallback == IF self.slack_say = 0 THEN [calls |-> << >>, exc |-> None]
                    ELSE [calls |-> <<Say(r, self, "completed_fallback", ok_s)>>,
                          exc |-> IF ok_s THEN None ELSE "SlackApiError"]
        update == ChatUpdate(r, self.planning_channel, self.planning_message_ts,
                             "completed", ok_u)
    IN  IF L.planning_updates = << >> THEN [calls |-> << >>, exc |-> None]
        ELSE IF self.slack_app /\ self.planning_message_ts # 0
        THEN IF self.planning_channel = None THEN fallback
             ELSE IF ok_u THEN [calls |-> <<update>>, exc |-> None]
             ELSE [calls |-> <<update>> \o fallback.calls, exc |-> fallback.exc]
        ELSE fallback

\* 424-562 with the except clause of 579-581: what the call ends with once the
\* loop is left, after the Slack calls made so far in this step.
Return(r, self, L, calls, summary, ok_u, ok_s, ok_e) ==
    LET stored == Store(self, L, summary)
        done == Completion(r, stored, L, ok_u, ok_s)
    IN  IF done.exc # None
        THEN [self |-> stored]
             @@ handle_error(r, stored, calls \o done.calls,
                             UnexpectedErrorMessage(done.exc), ok_e)
        ELSE [self |-> stored, calls |-> calls \o done.calls, pc |-> "returned",
              result |-> summary]

Summarize(r, self, L, calls, parsed_response, ok_u, ok_s, ok_e) ==
    IF parsed_response.exc # None
    THEN [self |-> self]
         @@ handle_error(r, self, calls, UnexpectedErrorMessage(parsed_response.exc), ok_e)
    ELSE CHOOSE end \in {Return(r, self, L, calls, summary, ok_u, ok_s, ok_e) :
                             summary \in {extract_summary(parsed_response)}} : TRUE

Finish(r, self, L, calls, ok_u, ok_s, ok_e) ==
    CHOOSE end \in {Summarize(r, self, L, calls, parsed_response, ok_u, ok_s, ok_e) :
                        parsed_response \in {Parse(L.response_lines)}} : TRUE

\* ------------------------------------------------------------------ actions

Init ==
    /\ pc = [r \in Req |-> "idle"]
    /\ frame = [r \in Req |-> FrameInit]
    /\ result = [r \in Req |-> NoResult]
    /\ CORTEX_APP = AppInit
    /\ channel_id = None
    /\ slack_calls = << >>
    /\ call = NoCall

\* handle_message_event (app.py 99-143) up to the call of chat(): the shared
\* object is pointed at this request's say and channel, and the 'Starting' notice
\* is posted; when that post fails the handler's except clause ends the request.
handle_message_event(r) ==
    /\ pc[r] = "idle"
    /\ \E ok \in BOOLEAN :
          /\ CORTEX_APP' = [CORTEX_APP EXCEPT !.slack_say = r, !.slack_app = TRUE]
          /\ channel_id' = Channel(r)
          /\ slack_calls' = <<Say(r, CORTEX_APP', "starting", ok)>>
          /\ pc' = [pc EXCEPT ![r] = IF ok THEN "posting" ELSE "aborted"]
    /\ UNCHANGED <<frame, result, call>>

\* requests.post answers (68-110): the progress message is posted and the loop
\* is entered.
Post(r) ==
    /\ pc[r] = "posting"
    /\ \E ok_s, ok_e \in BOOLEAN :
          LET self == [CORTEX_APP EXCEPT
                          !.planning_message_ts = 0,
                          !.planning_channel = IF CORTEX_APP.slack_app
                                               THEN channel_id ELSE None]
              say == IF self.slack_say = 0 THEN << >>
                     ELSE <<Say(r, self, "thinking", ok_s)>>
              failed == handle_error(r, self, say, UnexpectedErrorMessage("SlackApiError"),
                                     ok_e)
          IN  IF self.slack_say # 0 /\ ~ok_s
              THEN /\ CORTEX_APP' = self
                   /\ slack_calls' = failed.calls
                   /\ pc' = [pc EXCEPT ![r] = failed.pc]
                   /\ result' = [result EXCEPT ![r] = failed.result]
              ELSE /\ CORTEX_APP' = IF self.slack_say = 0 THEN self
                                    ELSE [self EXCEPT !.planning_message_ts = r]
                   /\ slack_calls' = say
                   /\ pc' = [pc EXCEPT ![r] = "streaming"]
                   /\ result' = result
    /\ frame' = [frame EXCEPT ![r] = FrameInit]
    /\ UNCHANGED <<channel_id, call>>

\* The end of one step of the loop: the exception exc, if any, reaches the except
\* clause of 579-581; a break or the end of the stream runs the rest of the call.
EndStep(r, L, calls, exc, leave, ok_u, ok_s, ok_e) ==
    /\ frame' = [frame EXCEPT ![r] = L]
    /\ IF exc # None
       THEN \E failed \in {handle_error(r, CORTEX_APP, calls,
                                         UnexpectedErrorMessage(exc), ok_e)} :
               /\ slack_calls' = failed.calls
               /\ pc' = [pc EXCEPT ![r] = failed.pc]
               /\ result' = [result EXCEPT ![r] = failed.result]
               /\ UNCHANGED CORTEX_APP
       ELSE IF leave
       THEN \E finished \in {Finish(r, CORTEX_APP, L, calls, ok_u, ok_s, ok_e)} :
               /\ slack_calls' = finished.calls
               /\ pc' = [pc EXCEPT ![r] = finished.pc]
               /\ result' = [result EXCEPT ![r] = finished.result]
               /\ CORTEX_APP' = finished.self
       ELSE /\ slack_calls' = calls
            /\ UNCHANGED <<pc, result, CORTEX_APP>>
    /\ UNCHANGED <<channel_id, call>>

\* response.iter_lines() yields `line` (112-422).
ReadLine(r, line) ==
    /\ pc[r] = "streaming"
    /\ IF line.kind = "blank"
       THEN UNCHANGED <<pc, frame, result, CORTEX_APP, channel_id, call>>
            /\ slack_calls' = << >>
       ELSE \E out \in {LoopBody(frame[r], line, CORTEX_APP)} :
                \E ok_u, ok_s, ok_e \in BOOLEAN :
                   LET preview == Preview(r, out.site, CORTEX_APP, channel_id, ok_u, ok_s)
                   IN  EndStep(r, out.L, preview.calls,
                               IF out.exc # None THEN out.exc ELSE preview.exc,
                               out.brk, ok_u, ok_s, ok_e)

\* response.iter_lines() is exhausted: the server closed the stream.
StreamEnd(r) ==
    /\ pc[r] = "streaming"
    /\ \E ok_u, ok_s, ok_e \in BOOLEAN :
          EndStep(r, frame[r], << >>, None, TRUE, ok_u, ok_s, ok_e)

\* requests.post or iter_lines raises requests.exceptions.Timeout (564-566).
Timeout(r) ==
    /\ pc[r] \in {"posting", "streaming"}
    /\ \E ok_e \in BOOLEAN :
          LET failed == handle_error(r, CORTEX_APP, << >>, TimeoutMessage, ok_e)
          IN  /\ slack_calls' = failed.calls
              /\ pc' = [pc EXCEPT ![r] = failed.pc]
              /\ result' = [result EXCEPT ![r] = failed.result]
    /\ UNCHANGED <<frame, CORTEX_APP, channel_id, call>>

\* requests.post, raise_for_status or iter_lines raises another RequestException
\* (567-578).
RequestException(r) ==
    /\ pc[r] \in {"posting", "streaming"}
    /\ \E ok_e \in BOOLEAN :
          LET failed == handle_error(r, CORTEX_APP, << >>,
                                     RequestErrorMessage("ConnectionError"), ok_e)
          IN  /\ slack_calls' = failed.calls
              /\ pc' = [pc EXCEPT ![r] = failed.pc]
              /\ result' = [result EXCEPT ![r] = failed.result]
    /\ UNCHANGED <<frame, CORTEX_APP, channel_id, call>>

\* test_question (test.py 147-165): chat() on a CortexChat that was given no
\* Slack functions.
test_question(r) ==
    /\ pc[r] = "idle"
    /\ CORTEX_APP.slack_say = 0 /\ ~CORTEX_APP.slack_app
    /\ pc' = [pc EXCEPT ![r] = "posting"]
    /\ slack_calls' = << >>
    /\ UNCHANGED <<frame, result, CORTEX_APP, channel_id, call>>

\* ------------------------------------------------------------------ streams

M1 == <<"Searching tables">>
M2 == <<"Running query">>

StatusData(m) == DataLine(Obj([message |-> m]))
\* 'data: {"text": t}' and 'data: {"content_index": i, "text": t}'
TextData(t) == DataLine(Obj([text |-> t]))
IndexedTextData(i, t) == DataLine(Obj([content_index |-> i, text |-> t]))

\* 'data: {"status": "executing", "status_message": m}', a legacy status line,
\* and 'data: 42'
LegacyData(m) == DataLine(Obj([status |-> <<"executing">>, status_message |-> m]))
NumData == DataLine([t |-> "num"])

\* The lines of the stream the bot's request reads: a status frame, a thinking
\* fragment, a legacy status line, a payload that is no object.
Lines ==
    {EventLine(EvStatus), EventLine(EvThinkingDelta),
     StatusData(M1), TextData(<<"a", " ">>), LegacyData(M2), NumData}

\* One message to the bot: the handler, chat() and what the transport and Slack
\* can do to them.
Next ==
    \/ handle_message_event(1)
    \/ Post(1)
    \/ \E line \in Lines :
          Len(frame[1].response_lines) < MaxLines /\ ReadLine(1, line)
    \/ StreamEnd(1)
    \/ Timeout(1)
    \/ RequestException(1)

Spec == Init /\ [][Next]_vars

\* The lines of the streams two concurrent requests read.
ConcurrentLines == {EventLine(EvStatus), StatusData(M1), StatusData(M2)}

\* Two messages to the bot, which Bolt hands to handle_message_event on two
\* threads: the steps of the two requests interleave.
NextConcurrent ==
    \E r \in Req :
        \/ handle_message_event(r)
        \/ Post(r)
        \/ \E line \in ConcurrentLines :
              Len(frame[r].response_lines) < MaxConcurrentLines /\ ReadLine(r, line)
        \/ StreamEnd(r)
        \/ Timeout(r)

SpecConcurrent == Init /\ [][NextConcurrent]_vars

\* The lines of a stream of status frames with thinking fragments among them.
StatusLines ==
    {EventLine(EvStatus), EventLine(EvThinkingDelta),
     StatusData(M1), StatusData(M2), TextData(<<"a", " ">>)}

\* chat() without Slack over such a stream, which the server may end anywhere.
NextStatus ==
    \/ test_question(1)
    \/ Post(1)
    \/ \E line \in StatusLines :
          Len(frame[1].response_lines) < MaxStatusLines /\ ReadLine(1, line)
    \/ StreamEnd(1)

SpecStatus == Init /\ [][NextStatus]_vars

\* The lines of a stream of thinking frames: fragments for the indexes 0 and 1,
\* one of them empty, a fragment that is an opening tag, and a tag-wrapped text.
ThinkingLines ==
    {EventLine(EvThinkingDelta), EventLine(EvThinking),
     TextData(<<"a", " ">>), IndexedTextData(1, <<"b">>), IndexedTextData(1, << >>),
     TextData(<<OPEN>>), TextData(<<OPEN, " ", "d", CLOSE>>)}

NextThinking ==
    \/ test_question(1)
    \/ Post(1)
    \/ \E line \in ThinkingLines :
          Len(frame[1].response_lines) < MaxThinkingLines /\ ReadLine(1, line)
    \/ StreamEnd(1)

SpecThinking == Init /\ [][NextThinking]_vars

\* 'data: not json'
BadData == DataLine([t |-> "bad"])

\* The lines of a stream of text frames, with a status frame, a line that is
\* not JSON and the sentinel with blanks around it.
TextLines ==
    {EventLine(EvTextDelta), EventLine(EvText), EventLine(EvStatus),
     TextData(<<"x", " ">>), TextData(<<"y">>), StatusData(M1),
     BadData, PaddedDataLine(DONE)}

NextText ==
    \/ test_question(1)
    \/ Post(1)
    \/ \E line \in TextLines :
          Len(frame[1].response_lines) < MaxTextLines /\ ReadLine(1, line)
    \/ StreamEnd(1)

SpecText == Init /\ [][NextText]_vars

\* ------------------------------------------------------------------ frames of a stream

Last(S) == CHOOSE x \in S : \A y \in S : y <= x

\* The event in force when line i of lines is read: the name on the last event
\* line before it.
EventAt(lines, i) ==
    LET evs == {j \in 1..(i - 1) : IsEvent(lines[j])}
    IN  IF evs = {} THEN NoEvent ELSE event_name(lines[Last(evs)])

\* Line i is a frame of event ev whose payload is an object with the field key.
IsFrame(lines, i, ev, key) ==
    /\ IsData(lines[i]) /\ lines[i].doc.t = "obj"
    /\ key \in DOMAIN lines[i].doc.obj
    /\ EventAt(lines, i) = ev

\* The field key of the frames of event ev, in arrival order.
FrameFields(lines, ev, key) ==
    LET at == SelectSeq([i \in 1..Len(lines) |-> i],
                        LAMBDA i : IsFrame(lines, i, ev, key))
    IN  [n \in 1..Len(at) |-> lines[at[n]].doc.obj[key]]

StatusEntries(timeline) == SelectSeq(timeline, LAMBDA e : e.type = "status")

\* ------------------------------------------------------------------ C1

C1_Recorded(r) ==
    LET lines == frame[r].response_lines
        m == FrameFields(lines, EvStatus, "message")
        entries == StatusEntries(frame[r].timeline)
    IN  /\ frame[r].planning_updates = m
        /\ entries = [n \in 1..Len(m) |-> Status(m[n])]
        /\ has_sse_data(lines) => parse_sse_response(lines).status_messages = m

\* A step leaves the entries the timeline holds where they are and of the type
\* they are, changes no Status entry, and adds at most one entry, at the end.
C1_Placed(r) ==
    LET old == frame[r].timeline
        new == frame'[r].timeline
    IN  /\ Len(new) \in {Len(old), Len(old) + 1}
        /\ \A i \in 1..Len(old) :
               /\ new[i].type = old[i].type
               /\ old[i].type = "status" => new[i] = old[i]

\* C1: in a stream of response.status frames with messages m1..mk, interleaved
\* with thinking frames, the status list of the live loop and of the parser is
\* <<m1, ..., mk>> in arrival order, the timeline's Status entries are exactly
\* Status(m1), ..., Status(mk) in that order, and each entry is added at the end
\* of the timeline when its frame arrives, so that it stands after the Thinking
\* entries that arrived before it and before those that arrive later.
C1_StatusInArrivalOrder ==
    /\ [](\A r \in Req : C1_Recorded(r))
    /\ [][\A r \in Req : C1_Placed(r)]_vars

\* Two status frames with different messages and a thinking fragment after the
\* first of them.
C1_Witness ==
    \E i, j, k \in 1..Len(frame[1].timeline) :
        /\ i < j /\ j < k
        /\ frame[1].timeline[i] = Status(M2)
        /\ frame[1].timeline[j].type = "thinking"
        /\ frame[1].timeline[k] = Status(M1)

\* ------------------------------------------------------------------ C2

\* The lines of the response.thinking.delta frames for content_index, and the
\* fragments f1..fn they carry, in arrival order.
DeltasOf(lines, content_index) ==
    SelectSeq([i \in 1..Len(lines) |-> i],
              LAMBDA i : /\ IsFrame(lines, i, EvThinkingDelta, "text")
                         /\ Get(lines[i].doc.obj, "content_index", 0) = content_index)

Fragments(lines, content_index) ==
    LET at == DeltasOf(lines, content_index)
    IN  [n \in 1..Len(at) |-> lines[at[n]].doc.obj["text"]]

\* Every data line of the stream is a fragment for content_index.
OnlyFragmentsOf(lines, content_index) ==
    \A i \in 1..Len(lines) :
        IsData(lines[i]) => \E n \in 1..Len(DeltasOf(lines, content_index)) :
                               DeltasOf(lines, content_index)[n] = i

HasTag(s) == \E i \in 1..Len(s) : s[i] \in {OPEN, CLOSE}

\* No thinking frame of the stream, fragment or complete, holds a thinking tag.
TagFree(lines) ==
    \A i \in 1..Len(lines) :
        (IsFrame(lines, i, EvThinkingDelta, "text") \/ IsFrame(lines, i, EvThinking, "text"))
            => ~HasTag(lines[i].doc.obj["text"])

\* What slot content_index holds, the empty text when there is no such slot.
Slot(thinking_updates, content_index) ==
    IF Len(thinking_updates) > content_index THEN thinking_updates[content_index + 1]
    ELSE << >>

EntriesOf(timeline, content_index) ==
    SelectSeq(timeline, LAMBDA e : IsThinkingOf(e, content_index))

ReadBy(r) == frame'[r].response_lines[Len(frame'[r].response_lines)]

\* The step reads a response.thinking (complete) frame for request r.
CompleteRead(r) ==
    /\ Len(frame'[r].response_lines) = Len(frame[r].response_lines) + 1
    /\ IsFrame(frame'[r].response_lines, Len(frame'[r].response_lines), EvThinking, "text")

\* The text between the tags of a wrapped text, trimmed.
Inner(text) == Strip(group1(text))

Wrapped(text) == thinking_match(text) /\ Inner(text) # << >>

OtherEntries(timeline, content_index) ==
    SelectSeq(timeline, LAMBDA e : ~IsThinkingOf(e, content_index))

\* After the step slot content_index holds text and nothing else, the one entry
\* of the index holds it trimmed, where the entry of the index stood if there
\* was one and at the end otherwise, and the other slots and entries are as
\* they were.
Overwritten(r, content_index, text) ==
    LET old == frame[r]
        new == frame'[r]
    IN  /\ Slot(new.thinking_updates, content_index) = text
        /\ \A j \in 0..1 : j # content_index =>
               Slot(new.thinking_updates, j) = Slot(old.thinking_updates, j)
        /\ EntriesOf(new.timeline, content_index) = <<Thinking(Strip(text), content_index)>>
        /\ OtherEntries(new.timeline, content_index)
              = OtherEntries(old.timeline, content_index)
        /\ IF EntriesOf(old.timeline, content_index) = << >>
           THEN new.timeline = Append(old.timeline, Thinking(Strip(text), content_index))
           ELSE Len(new.timeline) = Len(old.timeline)

\* C3 as the specification states it: every response.thinking frame overwrites
\* slot i and the entry of index i with its text (the text between the tags when
\* it is wrapped in them).
C3_AlwaysOverwrites ==
    [][\A r \in Req :
          CompleteRead(r) =>
              LET json_data == ReadBy(r).doc.obj
              IN  Overwritten(r, Get(json_data, "content_index", 0),
                              IF thinking_match(json_data["text"])
                              THEN Inner(json_data["text"]) ELSE json_data["text"])]_vars

\* C3: a response.thinking frame for content_index i whose text holds
\* <thinking>...</thinking> around a text that is not blank replaces what slot i
\* holds by that inner text, trimmed, whatever fragments the slot had
\* accumulated, and replaces the content of the timeline entry of index i in
\* place (adding the entry at the end when there is none); it never adds to what
\* they held.  Any other response.thinking frame changes no slot and no entry.
C3_WrappedOverwrites ==
    [][\A r \in Req :
          CompleteRead(r) =>
              LET json_data == ReadBy(r).doc.obj
              IN  IF Wrapped(json_data["text"])
                  THEN Overwritten(r, Get(json_data, "content_index", 0),
                                   Inner(json_data["text"]))
                  ELSE /\ frame'[r].thinking_updates = frame[r].thinking_updates
                       /\ frame'[r].timeline = frame[r].timeline]_vars

\* A complete frame has just replaced the two fragments slot 0 had accumulated.
C3_Witness ==
    LET lines == frame[1].response_lines
    IN  /\ Len(lines) = 5
        /\ IsFrame(lines, 5, EvThinking, "text") /\ Wrapped(lines[5].doc.obj["text"])
        /\ Len(Fragments(lines, 0)) = 2
        /\ frame[1].thinking_updates = <<<<"d">>>>
        /\ frame[1].timeline = <<Thinking(<<"d">>, 0)>>

\* ------------------------------------------------------------------ C4

\* Line i is a data line whose trimmed content is [DONE].
IsSentinel(lines, i) == IsData(lines[i]) /\ lines[i].doc = DONE

HasSentinel(lines) == \E i \in 1..Len(lines) : IsSentinel(lines, i)

\* What a call has aggregated and returned.
Aggregated(r) ==
    <<frame[r].planning_updates, frame[r].thinking_updates, frame[r].timeline,
      frame[r].tools_used, result[r]>>

\* C4: a data line whose trimmed content is [DONE] ends the consumption: it is
\* the last line the loop reads, the call no longer reads the stream, no later
\* step changes the status list, the thinking slots, the timeline, the tools or
\* the returned Summary, and whatever line followed the sentinel, the parser
\* would give the same text, status list and tool results.
C4_DoneHalts ==
    /\ [](\A r \in Req :
            LET lines == frame[r].response_lines
            IN  HasSentinel(lines) =>
                    /\ IsSentinel(lines, Len(lines))
                    /\ pc[r] # "streaming"
                    /\ \A line \in TextLines :
                           parse_sse_response(Append(lines, line))
                               = parse_sse_response(lines))
    /\ [][\A r \in Req :
             HasSentinel(frame[r].response_lines) =>
                 /\ frame'[r] = frame[r]
                 /\ Aggregated(r)' = Aggregated(r)]_vars

\* The sentinel was read with blanks around it, after a status frame and a text
\* frame, and the call returned the Summary of those two.
C4_Witness ==
    LET lines == frame[1].response_lines
    IN  /\ Len(lines) = 5 /\ lines[5] = PaddedDataLine(DONE)
        /\ frame[1].planning_updates = <<M1>>
        /\ pc[1] = "returned"
        /\ result[1].text = <<"x", " ">>

\* ------------------------------------------------------------------ C5

Remove(lines, i) == SubSeq(lines, 1, i - 1) \o SubSeq(lines, i + 1, Len(lines))

IsMalformed(lines, i) == IsData(lines[i]) /\ lines[i].doc.t = "bad"
IsWellFormed(lines, i) == IsData(lines[i]) /\ lines[i].doc.t # "bad"

\* The malformed data lines that stand between two well-formed ones.
MalformedBetween(lines) ==
    {i \in 1..Len(lines) :
        /\ IsMalformed(lines, i)
        /\ \E j \in 1..(i - 1) : IsWellFormed(lines, j)
        /\ \E k \in (i + 1)..Len(lines) : IsWellFormed(lines, k)}

\* What the loop holds besides the lines themselves.
Locals(L) ==
    <<L.current_event, L.planning_updates, L.thinking_updates, L.timeline, L.tools_used>>

\* C5: a data line that is not JSON is skipped: the step that reads it leaves
\* the call reading the stream with the status list, the thinking slots, the
\* timeline and the tools as they were; and when such a line stands between
\* well-formed data lines, what the loop has aggregated, what the parser makes
\* of the lines and the Summary the call returns are those of the same stream
\* without that line.
C5_MalformedSkipped ==
    /\ [](\A r \in Req :
            LET lines == frame[r].response_lines
            IN  \A i \in MalformedBetween(lines) :
                    /\ Locals(frame[r]) = Locals(LoopOver(FrameInit, Remove(lines, i), AppInit))
                    /\ parse_sse_response(lines) = parse_sse_response(Remove(lines, i))
                    /\ pc[r] = "returned" =>
                           result[r] = extract_summary(parse_sse_response(Remove(lines, i))))
    /\ [][\A r \in Req :
             /\ Len(frame'[r].response_lines) = Len(frame[r].response_lines) + 1
             /\ IsMalformed(frame'[r].response_lines, Len(frame'[r].response_lines))
             => /\ pc'[r] = "streaming"
                /\ Locals(frame'[r]) = Locals(frame[r])
                /\ result'[r] = result[r]]_vars

\* A line that is not JSON between a status frame and a text frame, and the
\* Summary returned holds the text.
C5_Witness ==
    LET lines == frame[1].response_lines
    IN  /\ 3 \in MalformedBetween(lines)
        /\ frame[1].planning_updates = <<M1>>
        /\ pc[1] = "returned"
        /\ result[1].text = <<"y">>

\* ------------------------------------------------------------------ C6

\* C6: when the call returns the Summary of a stream of new-format frames, its
\* text is the concatenation, in arrival order, of the text fields of the
\* response.text.delta frames; the text of a response.text frame is no part
\* of it.
C6_TextFromDeltas ==
    \A r \in Req :
        LET lines == frame[r].response_lines
        IN  pc[r] = "returned" /\ has_sse_data(lines)
            => result[r].text = Flatten(FrameFields(lines, EvTextDelta, "text"))

\* Two deltas and a complete frame: the text is that of the two deltas.
C6_Witness ==
    LET lines == frame[1].response_lines
    IN  /\ pc[1] = "returned"
        /\ FrameFields(lines, EvTextDelta, "text") = <<<<"x", " ">>, <<"y">>>>
        /\ FrameFields(lines, EvText, "text") # << >>
        /\ result[1].text = <<"x", " ", "y">>

\* ------------------------------------------------------------------ C7

\* C7: a timeout of the transport, whatever the call had consumed, makes the call
\* return {text: "Error: Request took longer than 120 seconds", sql_queries: [],
\* citations: []} and no other field.
C7_TimeoutSummary ==
    [][\A r \in Req :
          Timeout(r) =>
              /\ pc'[r] = "returned"
              /\ result'[r] = [text |-> <<"Error: ", "Request took longer than 120 seconds">>,
                               sql_queries |-> << >>, citations |-> << >>]]_vars

\* ------------------------------------------------------------------ C8

ErrorShaped(summary) ==
    /\ DOMAIN summary = {"text", "sql_queries", "citations"}
    /\ summary.text # << >> /\ Head(summary.text) = "Error: "
    /\ summary.sql_queries = << >> /\ summary.citations = << >>

\* The step is one in which the transport fails or the consumption of a line
\* raises.
Fails(r) ==
    \/ Timeout(r)
    \/ RequestException(r)
    \/ /\ pc[r] = "streaming"
       /\ Len(frame'[r].response_lines) = Len(frame[r].response_lines) + 1
       /\ LoopBody(frame[r], ReadBy(r), CORTEX_APP).exc # None

\* C8: no exception leaves chat(): a failure of the transport and an exception
\* raised while a line is consumed end the call with the error-shaped Summary.
C8_NoExceptionEscapes ==
    /\ [](\A r \in Req : pc[r] # "raised")
    /\ [][\A r \in Req :
             Fails(r) => pc'[r] = "returned" /\ ErrorShaped(result'[r])]_vars

\* ------------------------------------------------------------------ C9

\* C9: two concurrent requests share nothing: each Slack call a request makes
\* goes to that request's channel, each chat_update changes that request's
\* progress message, and when a request has returned its Summary what is stored
\* for the 'Show Details' button is what that request aggregated.
C9_RequestsIsolated ==
    /\ \A i \in 1..Len(slack_calls) :
           /\ slack_calls[i].channel = Channel(slack_calls[i].by)
           /\ slack_calls[i].api = "chat_update" => slack_calls[i].ts = slack_calls[i].by
    /\ \A r \in Req :
           pc[r] = "returned" /\ ~ErrorShaped(result[r])
           => /\ CORTEX_APP.planning_steps = frame[r].planning_updates
              /\ CORTEX_APP.timeline = frame[r].timeline

\* ------------------------------------------------------------------ C10

\* The calls that show the progress while the stream is consumed.
PreviewKinds == {"status_preview", "thinking_preview", "planning_preview", "progress_update"}

PreviewFails(r) ==
    \E i \in 1..Len(slack_calls') :
        /\ slack_calls'[i].by = r
        /\ slack_calls'[i].kind \in PreviewKinds
        /\ ~slack_calls'[i].ok

\* C10: a step in which a preview call fails aggregates what it would have
\* aggregated, and the call goes on reading the stream: no result, and no error,
\* is produced by that step.
C10_PreviewFailureSwallowed ==
    [][\A r \in Req :
          PreviewFails(r) =>
              /\ frame'[r] = LoopBody(frame[r], ReadBy(r), CORTEX_APP).L
              /\ pc'[r] = "streaming"
              /\ result'[r] = result[r]]_vars

\* ------------------------------------------------------------ smart_truncate

\* A text here is the sequence of its characters.
suffix == <<".", ".", ".">>

Indexes(text) == [i \in 1..Len(text) |-> i]

\* text[:n]: a negative n counts from the end of the text
Slice(text, n) ==
    LET stop == IF n < 0 THEN Len(text) + n ELSE n
    IN  SubSeq(text, 1, IF stop < 0 THEN 0
                        ELSE IF stop > Len(text) THEN Len(text) ELSE stop)

\* text.split('. '): the pieces between the occurrences of a period and a blank
split_sentences(text) ==
    LET At(i) == i < Len(text) /\ text[i] = "." /\ text[i + 1] = " "
        at == SelectSeq(Indexes(text), At)
    IN  [j \in 1..(Len(at) + 1) |->
            SubSeq(text, IF j = 1 THEN 1 ELSE at[j - 1] + 2,
                         IF j > Len(at) THEN Len(text) ELSE at[j] - 1)]

\* text.split(): the maximal runs of characters that are no white space
split_words(text) ==
    LET First(i) == ~IsSpace(text[i]) /\ (i = 1 \/ IsSpace(text[i - 1]))
        Final(i) == ~IsSpace(text[i]) /\ (i = Len(text) \/ IsSpace(text[i + 1]))
        first == SelectSeq(Indexes(text), First)
        final == SelectSeq(Indexes(text), Final)
    IN  [j \in 1..Len(first) |-> SubSeq(text, first[j], final[j])]

\* for piece in pieces: test = result + piece + sep; the piece is taken when
\* len(test) + len(suffix) <= max_length, and the first that is not ends the loop
\* (kept is the result, or truncated, of the source)
RECURSIVE Fit(_, _, _, _)
Fit(pieces, sep, kept, max_length) ==
    IF pieces = << >> THEN kept
    ELSE CHOOSE out \in
            {IF Len(test) + Len(suffix) <= max_length
             THEN Fit(Tail(pieces), sep, test, max_length)
             ELSE kept : test \in {kept \o Head(pieces) \o sep}} : TRUE

\* _smart_truncate that tries the word boundary before the sentence boundary.
smart_truncate_by_word(text, max_length) ==
    IF Len(text) <= max_length THEN text
    ELSE LET by_word == Strip(Fit(split_words(text), <<" ">>, << >>, max_length))
         IN  IF by_word # << >> THEN by_word \o suffix
             ELSE Slice(text, max_length - Len(suffix)) \o suffix

\* CortexChat._smart_truncate(text, max_length)
smart_truncate(text, max_length) ==
    IF Len(text) <= max_length THEN text
    ELSE LET sentences == split_sentences(text)
             by_sentence == IF Len(sentences) > 1
                            THEN Strip(Fit(sentences, <<".", " ">>, << >>, max_length))
                            ELSE << >>
             by_word == Strip(Fit(split_words(text), <<" ">>, << >>, max_length))
         IN  IF by_sentence # << >> THEN by_sentence \o suffix
             ELSE IF by_word # << >> THEN by_word \o suffix
             ELSE Slice(text, max_length - Len(suffix)) \o suffix

\* smart_truncate(text, max_length) of app.py
app_smart_truncate(text, max_length) ==
    IF Len(text) <= max_length THEN text
    ELSE LET sentences == split_sentences(text)
             by_sentence == IF Len(sentences) > 1
                            THEN Strip(Fit(sentences, <<".", " ">>, << >>, max_length))
                            ELSE << >>
             truncated == Strip(Fit(split_words(text), <<" ">>, << >>, max_length))
         IN  IF by_sentence # << >> THEN by_sentence \o suffix
             ELSE IF truncated # << >> THEN truncated \o suffix
             ELSE Slice(text, max_length - Len(suffix)) \o suffix

\* The texts of at most n characters over the alphabet
RECURSIVE Texts(_, _)
Texts(alphabet, n) ==
    IF n = 0 THEN {<< >>}
    ELSE LET shorter == Texts(alphabet, n - 1)
         IN  shorter \cup {Append(t, c) : t \in shorter, c \in alphabet}

MaxTextLen == 6
MaxBudget == 7

TruncateTexts == Texts({"a", ".", " "}, MaxTextLen)

\* One call of either copy of the function, on any text and any budget.
CallTruncate ==
    /\ call = NoCall
    /\ \E text \in TruncateTexts, max_length \in 0..MaxBudget :
          \/ call' = [op |-> "_smart_truncate", text |-> text, max_length |-> max_length,
                      value |-> smart_truncate(text, max_length)]
          \/ call' = [op |-> "smart_truncate", text |-> text, max_length |-> max_length,
                      value |-> app_smart_truncate(text, max_length)]
    /\ UNCHANGED <<pc, frame, result, CORTEX_APP, channel_id, slack_calls>>

NextTruncate == CallTruncate

SpecTruncate == Init /\ [][NextTruncate]_vars

\* ---- C11

IsTruncation == call.op \in {"_smart_truncate", "smart_truncate"}

\* C11: for every text s and every budget b, smart_truncate(s, b) has at most b
\* characters, and it is s itself when s has at most b characters.
C11_TruncationLaw ==
    IsTruncation =>
        /\ Len(call.value) <= call.max_length
        /\ Len(call.text) <= call.max_length => call.value = call.text

\* ------------------------------------------------ _update_slack_with_thinking

\* seq[-n:]
LastOf(seq, n) == SubSeq(seq, IF Len(seq) > n THEN Len(seq) - n + 1 ELSE 1, Len(seq))

\* The characters U+2022 (a bullet) and U+1F914 (a face), each one character of a
\* Python string.
BULLET == "U+2022"
FACE == "U+1F914"

\* f"(bullet) {status}"
Bullet(status) == <<BULLET, " ">> \o status

\* "\n".join(status_lines)
RECURSIVE Join(_)
Join(status_lines) ==
    IF status_lines = << >> THEN << >>
    ELSE IF Len(status_lines) = 1 THEN status_lines[1]
    ELSE status_lines[1] \o <<"\n">> \o Join(Tail(status_lines))

\* f"*(face) Thinking...*\n\n{progress_text}"
ThinkingHeader ==
    <<"*", FACE, " ", "T", "h", "i", "n", "k", "i", "n", "g", ".", ".", ".", "*", "\n", "\n">>

\* "*(face) Thinking...* Processing..."
ProcessingText ==
    <<"*", FACE, " ", "T", "h", "i", "n", "k", "i", "n", "g", ".", ".", ".", "*", " ",
      "P", "r", "o", "c", "e", "s", "s", "i", "n", "g", ".", ".", ".">>

\* 647-671: the last 8 status messages, then the latest non-blank thinking text,
\* cut to 300 characters
status_lines(planning_updates, thinking_updates) ==
    LET NonBlank(thinking_content) == Strip(thinking_content) # << >>
        kept == SelectSeq(thinking_updates, NonBlank)
        all_thinking == [i \in 1..Len(kept) |-> Strip(kept[i])]
        latest_thinking == all_thinking[Len(all_thinking)]
        recent_statuses == LastOf(planning_updates, 8)
        lines == [i \in 1..Len(recent_statuses) |-> Bullet(recent_statuses[i])]
    IN  IF all_thinking = << >> THEN lines
        ELSE Append(lines, Bullet(IF Len(latest_thinking) > 300
                                  THEN smart_truncate(latest_thinking, 300)
                                  ELSE latest_thinking))

\* 681-688: the last 4 status messages, then the last thinking slot cut to 200
\* characters
fewer_status_lines(planning_updates, thinking_updates) ==
    LET recent_statuses == LastOf(planning_updates, 4)
        lines == [i \in 1..Len(recent_statuses) |-> Bullet(recent_statuses[i])]
    IN  IF thinking_updates = << >> THEN lines
        ELSE Append(lines,
                    Bullet(smart_truncate(thinking_updates[Len(thinking_updates)], 200)))

\* 673-693: the text that chat_update is given
summary_text(planning_updates, thinking_updates) ==
    CHOOSE text \in
        {IF lines = << >> THEN ProcessingText
         ELSE IF Len(ThinkingHeader \o Join(lines)) > 2900
              THEN ThinkingHeader \o Join(fewer_status_lines(planning_updates,
                                                             thinking_updates))
              ELSE ThinkingHeader \o Join(lines) :
            lines \in {status_lines(planning_updates, thinking_updates)}} : TRUE

\* A text of n characters with no blank in it, and one of words of w - 1
\* characters.
Filler(n) == [i \in 1..n |-> "x"]
Words(n, w) == [i \in 1..n |-> IF i % w = 0 THEN " " ELSE "x"]

MaxStatuses == 9
MaxSlots == 2

\* Status messages of 2, 400 and 3000 characters; thinking texts that are empty,
\* short, 350 characters in words and 3000 characters in one word.
StatusMessages == {<<"o", "k">>, Filler(400), Filler(3000)}
ThinkingContents == {<< >>, <<"h", "m">>, Words(350, 10), Filler(3000)}

PlanningUpdates ==
    {[i \in 1..n |-> status] : n \in 0..MaxStatuses, status \in StatusMessages}
ThinkingUpdates ==
    UNION {[1..n -> ThinkingContents] : n \in 0..MaxSlots}

\* One call of _update_slack_with_thinking that reaches chat_update.
CallUpdate ==
    /\ call = NoCall
    /\ \E planning_updates \in PlanningUpdates, thinking_updates \in ThinkingUpdates :
          call' = [op |-> "_update_slack_with_thinking",
                   planning_updates |-> planning_updates,
                   thinking_updates |-> thinking_updates,
                   value |-> summary_text(planning_updates, thinking_updates)]
    /\ UNCHANGED <<pc, frame, result, CORTEX_APP, channel_id, slack_calls>>

NextPreview == CallUpdate

SpecPreview == Init /\ [][NextPreview]_vars

\* ---- C12

IsPreview == call.op = "_update_slack_with_thinking"

\* C12: the preview text given to the display never has more than 2900
\* characters, whatever the status messages and the thinking texts are.
C12_PreviewWithinLimit == IsPreview => Len(call.value) <= 2900

\* ------------------------------------------------------------------ finalize

\* 'data: {"tool_use_id": id, "content": [...]}'
ToolResultData(tool_use_id, content) ==
    DataLine(Obj([tool_use_id |-> tool_use_id, content |-> content]))

\* A content blob {"json": {"sql": sql}}
SqlBlob(sql) == [json |-> [sql |-> sql]]

MaxFinalizeLines == 5

\* The lines of a stream with a tag-wrapped thinking text, a text fragment and a
\* tool result.
FinalizeLines ==
    {EventLine(EvThinking), EventLine(EvTextDelta), EventLine(EvToolResult),
     TextData(<<OPEN, "d", CLOSE>>), TextData(<<"x">>),
     ToolResultData(<<"t1">>, <<SqlBlob(<<"q1">>)>>)}

NextFinalize ==
    \/ test_question(1)
    \/ Post(1)
    \/ \E line \in FinalizeLines :
          Len(frame[1].response_lines) < MaxFinalizeLines /\ ReadLine(1, line)
    \/ StreamEnd(1)

SpecFinalize == Init /\ [][NextFinalize]_vars

\* ---- C13

ItemTypes(message) ==
    {Get(message.content[i], "type", None) : i \in 1..Len(message.content)}

IsThinkingMessage(message) == ItemTypes(message) = {"thinking"}

\* C13: of the messages the parser builds at the end of the stream, the thinking
\* messages come before the message of the accumulated text, tool uses and tool
\* results, which is the last one; the Summary's text is the text of the last
\* assistant message, and it is the accumulated text whenever that is not empty.
C13_AccumulatedMessageLast ==
    \A r \in Req :
        LET lines == frame[r].response_lines
            messages == parse_sse_response(lines).messages
            accumulated == ParseLines(ParserInit, lines).text
        IN  pc[r] = "returned" /\ has_sse_data(lines) =>
                /\ \A i \in 1..Len(messages) :
                       /\ messages[i].role = "assistant"
                       /\ i < Len(messages) => IsThinkingMessage(messages[i])
                /\ result[r].text = IF messages = << >> THEN << >>
                                    ELSE text_content(messages[Len(messages)])
                /\ accumulated # << >> =>
                       /\ result[r].text = accumulated
                       /\ ~IsThinkingMessage(messages[Len(messages)])

\* A wrapped thinking text, then a text fragment: two messages, the thinking one
\* first, and the Summary's text is the fragment.
C13_Witness ==
    LET lines == frame[1].response_lines
        messages == parse_sse_response(lines).messages
    IN  /\ pc[1] = "returned"
        /\ FrameFields(lines, EvThinking, "text") = <<<<OPEN, "d", CLOSE>>>>
        /\ FrameFields(lines, EvTextDelta, "text") = <<<<"x">>>>
        /\ Len(messages) = 2
        /\ IsThinkingMessage(messages[1])
        /\ result[1].text = <<"x">>
        /\ result[1].planning_updates = <<<<"d">>>>

\* ---- C14

\* The trimmed texts of the thinking slots that are not blank, in index order.
NonEmptySlots(thinking_updates) ==
    LET kept == SelectSeq(thinking_updates, LAMBDA c : Strip(c) # << >>)
    IN  [i \in 1..Len(kept) |-> Strip(kept[i])]

\* C14: the Summary's planning_updates lists the final thinking text of each
\* thinking slot that is not empty, once, in the order of the indexes.
C14_OnePerSlot ==
    \A r \in Req :
        pc[r] = "returned" /\ has_sse_data(frame[r].response_lines) =>
            result[r].planning_updates = NonEmptySlots(frame[r].thinking_updates)

\* ------------------------------------------------------------------ tool results

Q1 == <<"SELECT 1">>
Q2 == <<"SELECT 2">>

\* A content blob {"json": fields}, and one with no 'json' key
JsonBlob(fields) == [json |-> fields]
TextBlob == [type |-> "text", text |-> <<"note">>]

\* Search results with and without 'text' and 'doc_id'
Doc1 == [doc_title |-> <<"Guide">>, text |-> <<"Restart it">>, doc_id |-> <<"doc-1">>]
Doc2 == [doc_title |-> <<"Untitled">>]
Doc3 == [doc_title |-> <<"FAQ">>, text |-> <<"See above">>]

MaxSummaryLines == 4

\* The lines of a stream of tool results: two sql blobs; a blob with no json
\* and one with sql and a flag; a flag set and then cleared in the same result;
\* search results; an empty sql before another one.
SummaryLines ==
    {EventLine(EvToolResult),
     ToolResultData(<<"t1">>, <<SqlBlob(Q1), SqlBlob(Q2)>>),
     ToolResultData(<<"t2">>, <<TextBlob, JsonBlob([sql |-> Q2, validated |-> TRUE])>>),
     ToolResultData(<<"t3">>, <<JsonBlob([validated |-> TRUE]),
                                JsonBlob([validated |-> FALSE, query_validation |-> TRUE])>>),
     ToolResultData(<<"t4">>, <<JsonBlob([searchResults |-> <<Doc1, Doc2>>])>>),
     ToolResultData(<<"t5">>, <<JsonBlob([searchResults |-> <<Doc3>>, verification |-> TRUE])>>),
     ToolResultData(<<"t6">>, <<SqlBlob(<< >>), SqlBlob(Q1)>>)}

NextSummary ==
    \/ test_question(1)
    \/ Post(1)
    \/ \E line \in SummaryLines :
          Len(frame[1].response_lines) < MaxSummaryLines /\ ReadLine(1, line)
    \/ StreamEnd(1)

SpecSummary == Init /\ [][NextSummary]_vars

\* The content lists of the tool results of the stream, in arrival order.
ToolContents(lines) ==
    LET at == SelectSeq([i \in 1..Len(lines) |-> i],
                        LAMBDA i : /\ IsFrame(lines, i, EvToolResult, "content")
                                   /\ "tool_use_id" \in DOMAIN lines[i].doc.obj)
    IN  [n \in 1..Len(at) |-> lines[at[n]].doc.obj["content"]]

\* The blobs of a content list that carry key under 'json', in order.
Carrying(content, key) ==
    SelectSeq(content, LAMBDA blob : /\ "json" \in DOMAIN blob
                                     /\ key \in DOMAIN blob["json"])

\* The call returned the Summary of a stream.
Summarized(r) == pc[r] = "returned" /\ has_sse_data(frame[r].response_lines)

\* ---- C15

\* The sql of the first blob of a tool result that has one, where it is not
\* empty.
FirstSql(content) ==
    LET blobs == Carrying(content, "sql")
    IN  IF blobs = << >> \/ blobs[1]["json"]["sql"] = << >> THEN << >>
        ELSE <<blobs[1]["json"]["sql"]>>

\* C15: the Summary's sql_queries lists, in the order of the tool results, the
\* sql of the first blob that has a sql key, at most one per tool result, so
\* that it is never longer than the number of tool results.
C15_FirstSqlPerToolResult ==
    \A r \in Req :
        LET contents == ToolContents(frame[r].response_lines)
        IN  Summarized(r) =>
                /\ result[r].sql_queries
                       = Flatten([n \in 1..Len(contents) |-> FirstSql(contents[n])])
                /\ Len(result[r].sql_queries) <= Len(contents)

\* Three tool results: two sql blobs, no sql at all, an sql after a blob with
\* no json; two queries are listed, the first blob's of the first result.
C15_Witness ==
    LET contents == ToolContents(frame[1].response_lines)
    IN  /\ Summarized(1)
        /\ Len(contents) = 3
        /\ contents[1] = <<SqlBlob(Q1), SqlBlob(Q2)>>
        /\ Carrying(contents[2], "sql") = << >>
        /\ contents[3][1] = TextBlob
        /\ result[1].sql_queries = <<Q1, Q2>>

\* ---- C16

\* How many elements of seq are x.
Count(seq, x) == Cardinality({i \in 1..Len(seq) : seq[i] = x})

\* C16 as stated: no SQL string is in the Summary's sql_queries more than once.
C16_NoDuplicates ==
    \A r \in Req :
        Summarized(r) =>
            \A i, j \in 1..Len(result[r].sql_queries) :
                result[r].sql_queries[i] = result[r].sql_queries[j] => i = j

\* C16, amended: the Summary's sql_queries is not deduplicated: an SQL string is
\* in it once for every tool result whose first sql blob holds that string.
C16_OncePerToolResult ==
    \A r \in Req :
        LET contents == ToolContents(frame[r].response_lines)
            firsts == [n \in 1..Len(contents) |-> FirstSql(contents[n])]
        IN  Summarized(r) =>
                \A sql \in {Q1, Q2} :
                    Count(result[r].sql_queries, sql) = Count(firsts, <<sql>>)

\* Two tool results with the same query: it is listed twice.
C16_Witness ==
    LET contents == ToolContents(frame[1].response_lines)
    IN  /\ Summarized(1)
        /\ Len(contents) = 2
        /\ FirstSql(contents[1]) = <<Q1>> /\ FirstSql(contents[2]) = <<Q1>>
        /\ result[1].sql_queries = <<Q1, Q1>>

\* ---- C17

\* C17: the Summary's verification_info holds the known keys only, and each of
\* them exactly when some blob of some tool result carries it, with the value
\* of the last such blob of the last such tool result.
C17_LatestVerificationWins ==
    \A r \in Req :
        LET blobs == Flatten(ToolContents(frame[r].response_lines))
            info == result[r].verification_info
        IN  Summarized(r) =>
                /\ DOMAIN info \subseteq VerificationKeys
                /\ \A key \in VerificationKeys :
                       LET carrying == Carrying(blobs, key)
                       IN  IF carrying = << >> THEN key \notin DOMAIN info
                           ELSE /\ key \in DOMAIN info
                                /\ info[key] = carrying[Len(carrying)]["json"][key]

\* A tool result with validated true beside its sql, then one that sets and
\* clears validated: the merge holds the cleared flag and query_validation, and
\* no sql.
C17_Witness ==
    LET contents == ToolContents(frame[1].response_lines)
    IN  /\ Summarized(1)
        /\ Len(contents) = 2
        /\ contents[1] = <<TextBlob, JsonBlob([sql |-> Q2, validated |-> TRUE])>>
        /\ Len(Carrying(contents[2], "validated")) = 2
        /\ result[1].verification_info = [validated |-> FALSE, query_validation |-> TRUE]

\* ---- C18

\* The flag key of a tool result: the value of the last of its blobs that
\* carries the key.
Flag(content, key) ==
    LET carrying == Carrying(content, key)
    IN  carrying # << >> /\ carrying[Len(carrying)]["json"][key] = TRUE

VerifiedFlags == {"verified_query_used", "query_verified", "validated", "verification"}

\* C18: the Summary's verified_query_used is true exactly when, for some tool
\* result, one of its flags verified_query_used, query_verified, validated and
\* verification is true; query_validation is not one of them.
C18_VerifiedIffSomeFlag ==
    \A r \in Req :
        LET contents == ToolContents(frame[r].response_lines)
        IN  Summarized(r) =>
                (result[r].verified_query_used
                    <=> \E n \in 1..Len(contents), key \in VerifiedFlags :
                            Flag(contents[n], key))

\* A tool result whose only true flag is query_validation, then one with
\* verification true: the second alone makes the Summary verified.
C18_Witness ==
    LET contents == ToolContents(frame[1].response_lines)
    IN  /\ Summarized(1)
        /\ Len(contents) = 2
        /\ Flag(contents[1], "query_validation")
        /\ \A key \in VerifiedFlags : ~Flag(contents[1], key)
        /\ Flag(contents[2], "verification")
        /\ result[1].verified_query_used
        /\ result[1].verification_info
               = [validated |-> FALSE, query_validation |-> TRUE, verification |-> TRUE]

\* ---- C19

\* The search results of the stream, in the order the tool results and their
\* blobs hold them.
SearchResultsOf(lines) ==
    LET blobs == Carrying(Flatten(ToolContents(lines)), "searchResults")
    IN  Flatten([n \in 1..Len(blobs) |-> blobs[n]["json"]["searchResults"]])

HasTitleAndText(doc) == "doc_title" \in DOMAIN doc /\ "text" \in DOMAIN doc

\* "{doc_title}: {text}", with " [Source: {doc_id}]" after it for a doc_id
Formatted(doc) ==
    IF "doc_id" \in DOMAIN doc
    THEN doc["doc_title"] \o <<": ">> \o doc["text"]
         \o <<" [Source: ">> \o doc["doc_id"] \o <<"]">>
    ELSE doc["doc_title"] \o <<": ">> \o doc["text"]

\* C19: the Summary's citations holds, in the order of the search results, one
\* string for every search result that has a doc_title and a text, formatted
\* "{doc_title}: {text}" with " [Source: {doc_id}]" after it when there is a
\* doc_id, and nothing for a search result that lacks the title or the text.
C19_OneCitationPerTitledResult ==
    \A r \in Req :
        LET cited == SelectSeq(SearchResultsOf(frame[r].response_lines), HasTitleAndText)
        IN  Summarized(r) =>
                result[r].citations = [n \in 1..Len(cited) |-> Formatted(cited[n])]

\* Three search results in two tool results, one of them with no text: two
\* citations, the first with its source.
C19_Witness ==
    /\ Summarized(1)
    /\ SearchResultsOf(frame[1].response_lines) = <<Doc1, Doc2, Doc3>>
    /\ result[1].search_results_count = 3
    /\ result[1].citations
           = << <<"Guide", ": ", "Restart it", " [Source: ", "doc-1", "]">>,
                <<"FAQ", ": ", "See above">> >>

\* ------------------------------------------------------------ extract_summary, twice

\* The response after a call of extract_summary that drops its messages.
ResponseDrained(response) == [response EXCEPT !.messages = << >>]

\* The response after a call of extract_summary (578-621): the function and the
\* properties it reads build new lists and dicts and assign to no part of it.
ResponseAfter(response) == response

MaxExtractLines == 4

\* extract_summary called on the response of a finished call, and called again
\* on what the first call left of it.
CallExtract(r) ==
    /\ pc[r] = "returned" /\ has_sse_data(frame[r].response_lines)
    /\ \/ /\ call = NoCall
          /\ \E response \in {parse_sse_response(frame[r].response_lines)} :
                call' = [op |-> "extract_summary", runs |-> 1,
                         given |-> response,
                         first |-> extract_summary(response),
                         value |-> extract_summary(response),
                         response |-> ResponseAfter(response)]
       \/ /\ call.op = "extract_summary" /\ call.runs = 1
          /\ call' = [call EXCEPT !.runs = 2,
                                  !.value = extract_summary(call.response),
                                  !.response = ResponseAfter(call.response)]
    /\ UNCHANGED <<pc, frame, result, CORTEX_APP, channel_id, slack_calls>>

NextExtract ==
    \/ test_question(1)
    \/ Post(1)
    \/ \E line \in SummaryLines :
          Len(frame[1].response_lines) < MaxExtractLines /\ ReadLine(1, line)
    \/ StreamEnd(1)
    \/ CallExtract(1)

SpecExtract == Init /\ [][NextExtract]_vars

\* ---- C20

StoredResults(self) ==
    <<self.planning_steps, self.thinking_steps, self.timeline, self.sql_queries,
      self.verification_info, self.verified_query_used>>

\* The step ends the call of request r in an error: a timeout, a transport error
\* or an exception caught by the except clauses of 564-581.
EndsInError(r) ==
    /\ pc[r] \in {"posting", "streaming"}
    /\ \/ pc'[r] = "raised"
       \/ pc'[r] = "returned" /\ ErrorShaped(result'[r])

\* C21: a request that ends in a timeout, a transport error or an unexpected
\* exception has the error Summary as its only result, and leaves the stored
\* per-request results (planning steps, thinking steps, timeline, SQL queries,
\* verification info, verified flag) as they were.
C21_FailureKeepsNothing ==
    [][\A r \in Req :
          EndsInError(r) =>
              /\ pc'[r] = "returned" /\ ErrorShaped(result'[r])
              /\ StoredResults(CORTEX_APP') = StoredResults(CORTEX_APP)]_vars

\* ------------------------------------------------------------------ C22

\* ': keep-alive', a line that is neither an event line nor a data line, and the
\* empty line that separates two frames.
OtherLine == [kind |-> "other"]
BlankLine == [kind |-> "blank"]

MaxEventLines == 5

\* The lines of a stream whose frames are separated by blank lines and comments.
EventLines ==
    {EventLine(EvStatus), EventLine(EvTextDelta), StatusData(M1), TextData(<<"x">>),
     OtherLine, BlankLine}

NextEvents ==
    \/ test_question(1)
    \/ Post(1)
    \/ \E line \in EventLines :
          Len(frame[1].response_lines) < MaxEventLines /\ ReadLine(1, line)
    \/ StreamEnd(1)

SpecEvents == Init /\ [][NextEvents]_vars

\* What the loop and the parser aggregated from the lines read so far.
C22_Dispatched(r) ==
    LET lines == frame[r].response_lines
        P == ParseLines(ParserInit, lines)
    IN  /\ frame[r].current_event = EventAt(lines, Len(lines) + 1)
        /\ P.current_event = EventAt(lines, Len(lines) + 1)
        /\ frame[r].planning_updates = FrameFields(lines, EvStatus, "message")
        /\ P.status_messages = FrameFields(lines, EvStatus, "message")
        /\ P.text = Flatten(FrameFields(lines, EvTextDelta, "text"))

\* The step reads a line that is no data line.
C22_NoFrame(r) ==
    LET lines == frame'[r].response_lines
        line == lines[Len(lines)]
    IN  /\ pc[r] = "streaming"
        /\ Len(lines) = Len(frame[r].response_lines) + 1
        /\ ~IsData(line)
        => /\ frame'[r].planning_updates = frame[r].planning_updates
           /\ frame'[r].thinking_updates = frame[r].thinking_updates
           /\ frame'[r].timeline = frame[r].timeline
           /\ ParseLines(ParserInit, lines).text
                  = ParseLines(ParserInit, frame[r].response_lines).text
           /\ ParseLines(ParserInit, lines).status_messages
                  = ParseLines(ParserInit, frame[r].response_lines).status_messages
           /\ ~IsEvent(line) => frame'[r].current_event = frame[r].current_event

\* C22: every data line is dispatched, by the loop and by the parser, under the
\* name on the most recent event line before it (none when there is no such
\* line); an event line aggregates nothing, and a blank line or a line of
\* another kind between two frames leaves the event name as it is.
C22_EventNamePersists ==
    /\ [](\A r \in Req : C22_Dispatched(r))
    /\ [][\A r \in Req : C22_NoFrame(r)]_vars

\* Two frames of one event line, a comment line between them, and a frame read
\* before any event line.
C22_Witness ==
    LET lines == frame[1].response_lines
    IN  /\ Len(lines) = 5
        /\ lines[1] = TextData(<<"x">>)
        /\ lines[2] = EventLine(EvStatus)
        /\ lines[3] = StatusData(M1)
        /\ lines[4] = OtherLine
        /\ lines[5] = StatusData(M1)
        /\ frame[1].planning_updates = <<M1, M1>>

\* ------------------------------------------------------------------ legacy frames

\* The content items of a legacy frame, and 'data: {"object": "message.delta",
\* "delta": {"content": [...]}}'
TextItem(t) == [type |-> "text", text |-> t]
ToolUseItem(tool_data) == [type |-> "tool_use", tool_use |-> tool_data]
ToolResultsItem(tool_data) == [type |-> "tool_results", tool_results |-> tool_data]
DeltaData(content) == DataLine(Obj([object |-> "message.delta", delta |-> [content |-> content]]))

Sql == [name |-> <<"sql">>]
Search == [name |-> <<"search">>]
Rows == [tool_use_id |-> <<"t1">>]

MaxLegacyLines == 4

\* The lines of a stream in the legacy format, with event lines of the new
\* format among them and the sentinel.
LegacyLines ==
    {EventLine(EvStatus), EventLine(EvTextDelta), EventLine(EvToolResult),
     DeltaData(<<TextItem(<<"x">>), ToolUseItem(Sql), ToolResultsItem(Rows)>>),
     DeltaData(<<ToolUseItem(Sql), ToolUseItem(Search), TextItem(<<"y">>)>>),
     DeltaData(<<ToolUseItem(<< >>)>>),
     DataLine(DONE)}

NextLegacy ==
    \/ test_question(1)
    \/ Post(1)
    \/ \E line \in LegacyLines :
          Len(frame[1].response_lines) < MaxLegacyLines /\ ReadLine(1, line)
    \/ StreamEnd(1)

SpecLegacy == Init /\ [][NextLegacy]_vars

\* Line i is a legacy frame {object: "message.delta", delta: {content: [...]}}.
IsLegacyFrame(lines, i) ==
    /\ IsData(lines[i]) /\ lines[i].doc.t = "obj"
    /\ Get(lines[i].doc.obj, "object", None) = "message.delta"
    /\ "content" \in DOMAIN Get(lines[i].doc.obj, "delta", << >>)

\* No [DONE] was read before line i.
BeforeDone(lines, i) ==
    \A j \in 1..(i - 1) : ~(IsData(lines[j]) /\ IsDone(data_content(lines[j])))

\* The field key of the content items of type `type` of the legacy frames among
\* the lines `at`, in arrival order.
RECURSIVE ItemFields(_, _, _, _)
ItemFields(lines, at, type, key) ==
    IF at = << >> THEN << >>
    ELSE LET content == lines[Head(at)].doc.obj["delta"]["content"]
             items == SelectSeq(content, LAMBDA e : Get(e, "type", None) = type)
         IN  [n \in 1..Len(items) |-> Get(items[n], key, << >>)]
             \o ItemFields(lines, Tail(at), type, key)

LegacyFrames(lines) ==
    SelectSeq([i \in 1..Len(lines) |-> i],
              LAMBDA i : IsLegacyFrame(lines, i) /\ BeforeDone(lines, i))

\* The legacy frames read while the event name in force is none of those the
\* first block of the parser's loop deals with.
UnhandledLegacyFrames(lines) ==
    SelectSeq(LegacyFrames(lines), LAMBDA i : EventAt(lines, i) \notin HandledEvents)

C23_Accumulated(lines, at) ==
    LET P == ParseLines(ParserInit, lines)
    IN  /\ P.text = Flatten(ItemFields(lines, at, "text", "text"))
        /\ P.tool_use = ItemFields(lines, at, "tool_use", "tool_use")
        /\ P.tool_results = ItemFields(lines, at, "tool_results", "tool_results")

\* C23 as the specification states it: the text items of every legacy frame that
\* arrives before [DONE] are appended to the accumulated text, and its tool_use
\* and tool_results items to the accumulated tool lists, in arrival order.
C23_EveryLegacyFrame ==
    \A r \in Req :
        C23_Accumulated(frame[r].response_lines, LegacyFrames(frame[r].response_lines))

\* C23, amended: that holds of the legacy frames that arrive before [DONE] while
\* the event name in force is none of response.text.delta, response.text,
\* response.thinking.delta, response.thinking and response.status; a legacy
\* frame read under one of these names adds nothing.
C23_UnhandledLegacyFrames ==
    \A r \in Req :
        C23_Accumulated(frame[r].response_lines,
                        UnhandledLegacyFrames(frame[r].response_lines))

\* Two legacy frames under no event name and one under response.status.
C23_Witness ==
    LET lines == frame[1].response_lines
        P == ParseLines(ParserInit, lines)
    IN  /\ Len(UnhandledLegacyFrames(lines)) = 2
        /\ Len(LegacyFrames(lines)) = 3
        /\ P.text = <<"x", "y">>
        /\ P.tool_use = <<Sql, Sql, Search>>
        /\ P.tool_results = <<Rows>>

\* ------------------------------------------------------------------ C24

\* The events whose data lines the loop of _retrieve_response deals with before
\* it looks at the shape of the payload (135-269).
LoopHandledEvents == {EvStatus, EvThinkingDelta, EvThinking, EvResponse}

\* The legacy frames the loop dispatches on their shape.
DispatchedLegacyFrames(lines) ==
    SelectSeq(LegacyFrames(lines), LAMBDA i : EventAt(lines, i) \notin LoopHandledEvents)

\* The tool names of the tool_use items of the frames `at`, in arrival order.
ToolNames(lines, at) ==
    LET tools == ItemFields(lines, at, "tool_use", "tool_use")
    IN  [n \in 1..Len(tools) |-> Get(tools[n], "name", <<"unknown">>)]

\* The first occurrence of each element of s.
FirstOccurrences(s) ==
    LET at == SelectSeq([n \in 1..Len(s) |-> n],
                        LAMBDA n : \A m \in 1..(n - 1) : s[m] # s[n])
    IN  [n \in 1..Len(at) |-> s[at[n]]]

C24_Registered(L, at) ==
    LET names == FirstOccurrences(ToolNames(L.response_lines, at))
        using == [n \in 1..Len(names) |-> <<"Using ">> \o names[n]]
    IN  /\ L.tools_used = names
        /\ L.planning_updates = using
        /\ L.timeline = [n \in 1..Len(using) |-> Status(using[n])]

\* C24 as the specification states it: a tool_use item of a legacy frame
\* registers its tool name and appends "Using <name>" to the status list and to
\* the timeline if and only if the name was not registered before in the stream.
C24_EveryToolUse ==
    \A r \in Req : C24_Registered(frame[r], LegacyFrames(frame[r].response_lines))

\* C24, amended: that holds of the tool_use items of the legacy frames read while
\* the event name in force is none of response.status, response.thinking.delta,
\* response.thinking and response; an item with a name already registered, and
\* an item of a frame read under one of these names, adds nothing.
C24_DispatchedToolUse ==
    \A r \in Req :
        C24_Registered(frame[r], DispatchedLegacyFrames(frame[r].response_lines))

\* The tool sql is used by two frames and the tool search by one; one frame was
\* read under response.status.
C24_Witness ==
    LET lines == frame[1].response_lines
    IN  /\ ToolNames(lines, DispatchedLegacyFrames(lines))
               = <<<<"sql">>, <<"sql">>, <<"search">>>>
        /\ Len(LegacyFrames(lines)) = 3
        /\ frame[1].planning_updates = <<<<"Using ", "sql">>, <<"Using ", "search">>>>

\* ------------------------------------------------------------------ C25

\* Legacy status lines: 'data: {"status": s, "status_message": m}' with the
\* sentinel and with the empty text as status, and one without status_message.
LegacyStatusData(s, m) == DataLine(Obj([status |-> s, status_message |-> m]))
LegacyStatusOnly(s) == DataLine(Obj([status |-> s]))

MaxLegacyStatusLines == 4

LegacyStatusLines ==
    {EventLine(EvStatus), EventLine(EvToolResult), StatusData(M1), LegacyData(M2),
     LegacyStatusData(REASONING_AGENT_STOP, M1), LegacyStatusData(<< >>, M1),
     LegacyStatusOnly(<<"executing">>)}

NextLegacyStatus ==
    \/ test_question(1)
    \/ Post(1)
    \/ \E line \in LegacyStatusLines :
          Len(frame[1].response_lines) < MaxLegacyStatusLines /\ ReadLine(1, line)
    \/ StreamEnd(1)

SpecLegacyStatus == Init /\ [][NextLegacyStatus]_vars

\* Line i is a legacy status payload (no object field, a status field) whose
\* status is not the sentinel and that has a status_message.
IsLegacyStatus(lines, i) ==
    /\ IsData(lines[i]) /\ lines[i].doc.t = "obj"
    /\ "object" \notin DOMAIN lines[i].doc.obj
    /\ "status" \in DOMAIN lines[i].doc.obj
    /\ lines[i].doc.obj["status"] # REASONING_AGENT_STOP
    /\ Get(lines[i].doc.obj, "status_message", << >>) # << >>

\* Such a payload whose status is not empty, read while the event name in force
\* is none of those the loop deals with before it looks at the payload's shape.
IsDispatchedLegacyStatus(lines, i) ==
    /\ IsLegacyStatus(lines, i)
    /\ lines[i].doc.obj["status"] # << >>
    /\ EventAt(lines, i) \notin LoopHandledEvents

\* The messages of the response.status frames and the status_message of the
\* lines of `legacy`, in arrival order.
StatusesOf(lines, legacy) ==
    LET at == SelectSeq([i \in 1..Len(lines) |-> i],
                        LAMBDA i : IsFrame(lines, i, EvStatus, "message") \/ i \in legacy)
    IN  [n \in 1..Len(at) |->
            IF at[n] \in legacy THEN lines[at[n]].doc.obj["status_message"]
            ELSE lines[at[n]].doc.obj["message"]]

C25_Appended(L, legacy) ==
    LET m == StatusesOf(L.response_lines, legacy)
    IN  /\ L.planning_updates = m
        /\ L.timeline = [n \in 1..Len(m) |-> Status(m[n])]

\* C25 as the specification states it: a legacy status payload appends its
\* status_message to the status list and to the timeline, as a response.status
\* frame does its message, whenever its status is not the sentinel and it has a
\* status_message, and appends nothing with the sentinel.
C25_EveryLegacyStatus ==
    \A r \in Req :
        LET lines == frame[r].response_lines
        IN  C25_Appended(frame[r], {i \in 1..Len(lines) : IsLegacyStatus(lines, i)})

\* C25, amended: the loop does so when, besides, the status is not empty and the
\* event name in force is none of response.status, response.thinking.delta,
\* response.thinking and response; otherwise the payload appends nothing.  The
\* parser's status list never holds a legacy status.
C25_DispatchedLegacyStatus ==
    \A r \in Req :
        LET lines == frame[r].response_lines
        IN  /\ C25_Appended(frame[r],
                            {i \in 1..Len(lines) : IsDispatchedLegacyStatus(lines, i)})
            /\ ParseLines(ParserInit, lines).status_messages
                   = FrameFields(lines, EvStatus, "message")

\* A legacy status under no event name, the sentinel, and a status frame: the
\* two messages stand in arrival order.
C25_Witness ==
    LET lines == frame[1].response_lines
    IN  /\ Len(lines) = 4
        /\ lines[1] = LegacyData(M2)
        /\ lines[2] = LegacyStatusData(REASONING_AGENT_STOP, M1)
        /\ lines[3] = EventLine(EvStatus)
        /\ lines[4] = StatusData(M1)
        /\ frame[1].planning_updates = <<M2, M1>>
        /\ frame[1].timeline = <<Status(M2), Status(M1)>>

\* ------------------------------------------------------------------ C26

MaxToolResultLines == 4

\* The lines of a stream of tool results, two of them without one of the two
\* fields, with the event line of the text fragments and the sentinel.
ToolResultLines ==
    {EventLine(EvToolResult), EventLine(EvTextDelta),
     ToolResultData(<<"t1">>, <<SqlBlob(Q1)>>),
     ToolResultData(<<"t2">>, <<TextBlob>>),
     DataLine(Obj([tool_use_id |-> <<"t3">>])),
     DataLine(Obj([content |-> <<SqlBlob(Q2)>>])),
     DataLine(DONE)}

NextToolResult ==
    \/ test_question(1)
    \/ Post(1)
    \/ \E line \in ToolResultLines :
          Len(frame[1].response_lines) < MaxToolResultLines /\ ReadLine(1, line)
    \/ StreamEnd(1)

SpecToolResult == Init /\ [][NextToolResult]_vars

\* The response.tool_result frames that carry tool_use_id and content, read
\* before [DONE], and the ToolResults they stand for, in arrival order.
ToolResultFrames(lines) ==
    SelectSeq([i \in 1..Len(lines) |-> i],
              LAMBDA i : /\ IsFrame(lines, i, EvToolResult, "content")
                         /\ "tool_use_id" \in DOMAIN lines[i].doc.obj
                         /\ BeforeDone(lines, i))

ToolResultsOf(lines) ==
    LET at == ToolResultFrames(lines)
    IN  [n \in 1..Len(at) |-> ToolResult(lines[at[n]].doc.obj)]

\* C26: the tool results the parser aggregates are those of the response.tool_result
\* frames that carry both tool_use_id and content, one for each and in arrival
\* order, a frame without one of the two fields adding none; and they are the
\* tool results of the last message of the parsed response, in that order.
C26_ToolResultsInOrder ==
    \A r \in Req :
        LET lines == frame[r].response_lines
            P == ParseLines(ParserInit, lines)
            messages == Response(P).messages
        IN  /\ P.tool_results = ToolResultsOf(lines)
            /\ ToolResultsOf(lines) # << >>
               => /\ messages # << >>
                  /\ tool_results(messages[Len(messages)]) = ToolResultsOf(lines)

\* Two tool results with a frame without content between them: t2 before t1.
C26_Witness ==
    LET lines == frame[1].response_lines
        messages == parse_sse_response(lines).messages
    IN  /\ Len(lines) = 4
        /\ lines[1] = EventLine(EvToolResult)
        /\ lines[2] = ToolResultData(<<"t2">>, <<TextBlob>>)
        /\ lines[3] = DataLine(Obj([tool_use_id |-> <<"t3">>]))
        /\ lines[4] = ToolResultData(<<"t1">>, <<SqlBlob(Q1)>>)
        /\ Len(messages) = 1
        /\ tool_results(messages[1])
               = <<[tool_use_id |-> <<"t2">>, content |-> <<TextBlob>>],
                   [tool_use_id |-> <<"t1">>, content |-> <<SqlBlob(Q1)>>]>>

\* ------------------------------------------------------------------ C27

\* The step reads a response.thinking.delta or a response.thinking frame for
\* request r.
ThinkingRead(r) ==
    LET lines == frame'[r].response_lines
    IN  /\ Len(lines) = Len(frame[r].response_lines) + 1
        /\ \/ IsFrame(lines, Len(lines), EvThinkingDelta, "text")
           \/ IsFrame(lines, Len(lines), EvThinking, "text")

\* The timeline differs from what it was in the content of its entry p at most.
ReplacedInPlace(old, new, p) ==
    /\ Len(new) = Len(old)
    /\ \A i \in 1..Len(old) :
           IF i = p THEN new[i] = [old[i] EXCEPT !.content = new[i].content]
           ELSE new[i] = old[i]

\* C27: the timeline never holds two Thinking entries of one content_index, and
\* a response.thinking.delta or response.thinking frame for an index that has
\* an entry changes the timeline in the content of that entry only: the entry
\* stays where it stands, the other entries are as they were, and no entry is
\* added.
C27_OneEntryPerIndex ==
    /\ [](\A r \in Req : \A content_index \in 0..1 :
              Len(EntriesOf(frame[r].timeline, content_index)) <= 1)
    /\ [][\A r \in Req :
             ThinkingRead(r) =>
                 LET content_index == Get(ReadBy(r).doc.obj, "content_index", 0)
                     at == ThinkingOfAt(frame[r].timeline, content_index)
                 IN  at # {} =>
                        ReplacedInPlace(frame[r].timeline, frame'[r].timeline,
                                        Last(at))]_vars

\* ------------------------------------------------------------------ C28

\* t is s with something appended.
IsPrefix(s, t) == Len(s) <= Len(t) /\ SubSeq(t, 1, Len(s)) = s

\* C28: a step leaves in each thinking slot what the slot held, with a fragment
\* appended or nothing, unless the step reads a response.thinking (complete)
\* frame for the content_index of that slot: no response.thinking.delta frame,
\* and no frame for another index, replaces what a slot holds.
C28_SlotsAppendOnly ==
    [][\A r \in Req : \A content_index \in 0..1 :
          \/ IsPrefix(Slot(frame[r].thinking_updates, content_index),
                      Slot(frame'[r].thinking_updates, content_index))
          \/ /\ CompleteRead(r)
             /\ Get(ReadBy(r).doc.obj, "content_index", 0) = content_index]_vars

\* ------------------------------------------------------------------ C29

MaxSlotLines == 4

\* The lines of interleaved thinking streams whose indexes arrive out of order
\* and skip one another.
SlotLines ==
    {EventLine(EvThinkingDelta), EventLine(EvThinking),
     TextData(<<"a", " ">>), IndexedTextData(2, <<"c">>), IndexedTextData(1, <<"b">>),
     IndexedTextData(1, <<OPEN>>), TextData(<<OPEN, "d", CLOSE>>)}

NextSlots ==
    \/ test_question(1)
    \/ Post(1)
    \/ \E line \in SlotLines :
          Len(frame[1].response_lines) < MaxSlotLines /\ ReadLine(1, line)
    \/ StreamEnd(1)

SpecSlots == Init /\ [][NextSlots]_vars

\* The step reads a response.thinking.delta frame for request r whose text is
\* not wrapped in the tags: a raw fragment.
RawDeltaRead(r) ==
    LET lines == frame'[r].response_lines
    IN  /\ Len(lines) = Len(frame[r].response_lines) + 1
        /\ IsFrame(lines, Len(lines), EvThinkingDelta, "text")
        /\ ~thinking_match(lines[Len(lines)].doc.obj["text"])

\* What a raw fragment for content_index does to the slots: the slots that
\* existed, but that of the index, hold what they held, the slots that come to
\* exist below the index are empty, and there are slots up to the index as soon
\* as the fragment holds a text.
C29_Slots(old, new, content_index, clean_text) ==
    /\ Len(new) = IF clean_text = << >> \/ Len(old) > content_index THEN Len(old)
                  ELSE content_index + 1
    /\ \A j \in 1..Len(new) :
           j # content_index + 1 => new[j] = IF j <= Len(old) THEN old[j] ELSE << >>
    /\ Slot(new, content_index) = Slot(old, content_index) \o clean_text

\* And to the timeline: the entries that are not the entry of the index are as
\* they were, and the one entry that may be added is the entry of the index.
C29_Timeline(old, new, content_index) ==
    /\ \A i \in 1..Len(old) :
           /\ i <= Len(new)
           /\ IsThinkingOf(old[i], content_index) \/ new[i] = old[i]
    /\ \/ Len(new) = Len(old)
       \/ /\ Len(new) = Len(old) + 1
          /\ IsThinkingOf(new[Len(new)], content_index)

\* C29: a raw response.thinking.delta fragment for content_index k creates the
\* slots that are missing below k as empty texts and changes slot k and the
\* timeline entry of index k only: the other slots and the other entries of the
\* timeline are as they were, whatever the order in which the indexes arrive.
C29_NoContamination ==
    [][\A r \in Req :
          RawDeltaRead(r) =>
              LET json_data == ReadBy(r).doc.obj
                  content_index == Get(json_data, "content_index", 0)
              IN  /\ C29_Slots(frame[r].thinking_updates, frame'[r].thinking_updates,
                               content_index, RemoveTags(json_data["text"]))
                  /\ C29_Timeline(frame[r].timeline, frame'[r].timeline,
                                  content_index)]_vars

\* A fragment for index 2 created the slots 0 and 1 empty, and a fragment for
\* index 0 came after it: slot 1 is still empty and the entry of index 2 is as
\* it was.
C29_Witness ==
    /\ frame[1].thinking_updates = <<<<"a", " ", "a", " ">>, << >>, <<"c">>>>
    /\ frame[1].timeline = <<Thinking(<<"c">>, 2), Thinking(<<"a", " ", "a">>, 0)>>

\* ------------------------------------------------------------------ C30

\* 'data: ["text"]' and 'data: []', arrays of JSON strings, and 'data: [1', an
\* array cut short.
ArrayData(items) == DataLine([t |-> "array", items |-> items])
CutData == DataLine([t |-> "cut"])

MaxTraceLines == 4

\* The lines of a stream with trace data among its frames.
TraceLines ==
    {EventLine(EvTextDelta), EventLine(EvStatus), TextData(<<"x">>), StatusData(M1),
     ArrayData(<<"text">>), ArrayData(<< >>), CutData}

NextTrace ==
    \/ test_question(1)
    \/ Post(1)
    \/ \E line \in TraceLines :
          Len(frame[1].response_lines) < MaxTraceLines /\ ReadLine(1, line)
    \/ StreamEnd(1)

SpecTrace == Init /\ [][NextTrace]_vars

\* The step reads, for request r, a data line whose content starts with '[' and
\* is not [DONE].
TraceRead(r) ==
    LET lines == frame'[r].response_lines
        line == lines[Len(lines)]
    IN  /\ pc[r] = "streaming"
        /\ Len(lines) = Len(frame[r].response_lines) + 1
        /\ IsData(line)
        /\ StartsWithBracket(data_content(line)) /\ ~IsDone(data_content(line))

\* What the parser has aggregated from lines, and the exception it raised.
ParserAggregation(lines) ==
    LET P == ParseLines(ParserInit, lines)
    IN  <<P.text, P.status_messages, P.accumulated_thinking, P.tool_use,
          P.tool_results, P.exc>>

\* C30: a data line whose content starts with '[' and is not [DONE] changes,
\* under every event name, nothing of what the loop and the parser aggregate
\* (text, status list, thinking, timeline, tool results), and the stream goes on
\* being read: neither the loop nor the parser raises on it.
C30_TraceDataIgnored ==
    [][\A r \in Req :
          TraceRead(r) =>
              /\ pc'[r] = "streaming"
              /\ frame'[r].planning_updates = frame[r].planning_updates
              /\ frame'[r].thinking_updates = frame[r].thinking_updates
              /\ frame'[r].timeline = frame[r].timeline
              /\ frame'[r].tools_used = frame[r].tools_used
              /\ ParserAggregation(frame'[r].response_lines)
                     = ParserAggregation(frame[r].response_lines)]_vars

\* ------------------------------------------------------------------ C31

\* The last min(8, k) of the k status messages, as the bullets of a preview.
RecentStatusLines(planning_updates) ==
    [i \in 1..Len(LastOf(planning_updates, 8)) |-> Bullet(LastOf(planning_updates, 8)[i])]

\* The excerpts of a thinking text: the text trimmed, whole or cut to the 300
\* or to the 200 characters of the two renderings.
Excerpts(thinking_content) ==
    {Strip(thinking_content), smart_truncate(Strip(thinking_content), 300),
     smart_truncate(Strip(thinking_content), 200)}

MaxLiveLines == 4

\* A body that is not a stream: one line holding the JSON document `body`.
JsonLine(body) == [kind |-> "json", body |-> body]

\* The lines of a stream with status messages, thinking fragments for two
\* content indexes and the sentinel, and a body that is one JSON document, read
\* by the bot's request, which previews them live.
LiveLines ==
    {EventLine(EvStatus), EventLine(EvThinkingDelta),
     StatusData(M1), TextData(<<"a", " ">>), IndexedTextData(1, <<"b">>),
     DataLine(DONE), JsonLine([message |-> [content |-> <<[type |-> "text", text |-> <<"x">>]>>]])}

NextLive ==
    \/ handle_message_event(1)
    \/ Post(1)
    \/ \E line \in LiveLines :
          Len(frame[1].response_lines) < MaxLiveLines /\ ReadLine(1, line)
    \/ StreamEnd(1)

SpecLive == Init /\ [][NextLive]_vars

\* The step made the chat_update of _update_slack_with_thinking for request r.
ThinkingPreviewMade(r) ==
    \E i \in 1..Len(slack_calls') :
        slack_calls'[i].by = r /\ slack_calls'[i].kind = "thinking_preview"

\* C31: each live preview shows exactly the most recent min(8, k) of the k status
\* messages recorded so far, in arrival order, followed by at most one thinking
\* excerpt, and that excerpt is taken from the most recently updated non-empty
\* thinking slot: after a raw fragment for content_index i, from slot i.
C31_RecentStatusesThenLatestThinking ==
    [][\A r \in Req :
          (RawDeltaRead(r) /\ ThinkingPreviewMade(r)) =>
              LET content_index == Get(ReadBy(r).doc.obj, "content_index", 0)
                  planning_updates == frame'[r].planning_updates
                  thinking_updates == frame'[r].thinking_updates
              IN  summary_text(planning_updates, thinking_updates) \in
                      {ThinkingHeader \o
                         Join(Append(RecentStatusLines(planning_updates), Bullet(e))) :
                           e \in Excerpts(Slot(thinking_updates, content_index))}]_vars

\* ------------------------------------------------------------------ C32

MaxPieces == 5
MaxBoundaryBudget == 10

\* The texts made of at most n of the pieces.
RECURSIVE PiecedTexts(_, _)
PiecedTexts(pieces, n) ==
    IF n = 0 THEN {<< >>}
    ELSE LET shorter == PiecedTexts(pieces, n - 1)
         IN  shorter \cup {t \o p : t \in shorter, p \in pieces}

\* Texts of short and long words, blanks and sentence ends, such as
\* "a. a aaaa", and texts with no blank in them.
BoundaryTexts ==
    PiecedTexts({<<"a">>, <<"a", "a", "a", "a">>, <<" ">>, <<".", " ">>}, MaxPieces)

\* One call of either copy of the function on such a text.
CallTruncateAtBoundary ==
    /\ call = NoCall
    /\ \E text \in BoundaryTexts, max_length \in 0..MaxBoundaryBudget :
          \/ call' = [op |-> "_smart_truncate", text |-> text, max_length |-> max_length,
                      value |-> smart_truncate(text, max_length)]
          \/ call' = [op |-> "smart_truncate", text |-> text, max_length |-> max_length,
                      value |-> app_smart_truncate(text, max_length)]
    /\ UNCHANGED <<pc, frame, result, CORTEX_APP, channel_id, slack_calls>>

NextBoundary == CallTruncateAtBoundary

SpecBoundary == Init /\ [][NextBoundary]_vars

\* The first n pieces, each followed by the separator.
RECURSIVE Leading(_, _, _)
Leading(pieces, sep, n) ==
    IF n = 0 THEN << >> ELSE Leading(pieces, sep, n - 1) \o pieces[n] \o sep

\* How many leading pieces are under the budget with their separators and the
\* suffix.
UnderBudget(pieces, sep, max_length) ==
    Cardinality({n \in 1..Len(pieces) :
                    Len(Leading(pieces, sep, n)) + Len(suffix) <= max_length})

EndsWith(text, end) ==
    Len(text) >= Len(end) /\ SubSeq(text, Len(text) - Len(end) + 1, Len(text)) = end

\* C32: when smart_truncate shortens a text, the result is the leading '. '-
\* separated sentences that are under the budget; the leading words that are
\* under the budget only when no sentence is; and a cut at a character only when
\* no word is; and in the three cases it ends with the suffix "...".
C32_SentenceThenWordThenCut ==
    (IsTruncation /\ Len(call.text) > call.max_length) =>
        LET sentences == split_sentences(call.text)
            words == split_words(call.text)
            ns == UnderBudget(sentences, <<".", " ">>, call.max_length)
            nw == UnderBudget(words, <<" ">>, call.max_length)
        IN  /\ EndsWith(call.value, suffix)
            /\ call.value =
                 (IF ns > 0 THEN Strip(Leading(sentences, <<".", " ">>, ns))
                  ELSE IF nw > 0 THEN Strip(Leading(words, <<" ">>, nw))
                  ELSE Slice(call.text, call.max_length - Len(suffix))) \o suffix

\* "a. a aaaa" cut to 8 characters is "a....", the first sentence, although the
\* words "a. a" are under the budget too; "aaaa a" cut to 5 is "aa..." since no
\* word is under the budget.
C32_Witness ==
    /\ IsTruncation
    /\ call.text = <<"a", ".", " ", "a", " ", "a", "a", "a", "a">>
    /\ call.max_length = 8
    /\ call.value = <<"a", ".", ".", ".", ".">>
    /\ UnderBudget(split_words(call.text), <<" ">>, call.max_length) = 2

\* ------------------------------------------------------------------ C33

MaxSourceLines == 4

\* The lines of a stream that states its steps in the three ways: response.status
\* frames, legacy status objects and legacy tool_use items, among thinking
\* fragments.
SourceLines ==
    {EventLine(EvStatus), EventLine(EvThinkingDelta), EventLine(EvToolResult),
     StatusData(M1), LegacyData(M2), TextData(<<"a", " ">>),
     DeltaData(<<ToolUseItem(Sql), ToolUseItem(Search)>>)}

NextSources ==
    \/ test_question(1)
    \/ Post(1)
    \/ \E line \in SourceLines :
          Len(frame[1].response_lines) < MaxSourceLines /\ ReadLine(1, line)
    \/ StreamEnd(1)

SpecSources == Init /\ [][NextSources]_vars

\* The contents of the Status entries of a timeline, in timeline order.
StatusContents(timeline) ==
    [i \in 1..Len(StatusEntries(timeline)) |-> StatusEntries(timeline)[i].content]

\* C33: after every processed line the contents of the Status entries of the
\* timeline, read in timeline order, are the status list exactly, whether the
\* statuses came from response.status frames, from legacy status objects or
\* from legacy tool_use items.
C33_StatusEntriesAreStatusList ==
    \A r \in Req : StatusContents(frame[r].timeline) = frame[r].planning_updates

\* A legacy status, the two tools of a legacy frame and a response.status
\* message were recorded, in that order.
C33_Witness ==
    /\ frame[1].planning_updates =
           <<M2, <<"Using ">> \o Sql.name, <<"Using ">> \o Search.name, M1>>
    /\ StatusContents(frame[1].timeline) = frame[1].planning_updates

\* ------------------------------------------------------------------ C34

\* C34: after any sequence of thinking events (raw fragments, fragments wrapped
\* in the tags and complete events, over several content indexes), every
\* Thinking entry of the timeline that carries a content_index i holds the
\* current text of thinking slot i, trimmed.
C34_EntriesMirrorSlots ==
    \A r \in Req : \A p \in 1..Len(frame[r].timeline) :
        LET entry == frame[r].timeline[p]
        IN  (IsThinkingEntry(entry) /\ "content_index" \in DOMAIN entry) =>
                entry.content = Strip(Slot(frame[r].thinking_updates, entry.content_index))

\* ------------------------------------------------------------------ C35

\* 'data: {"object": "message.delta", "text": t, "delta": {"content": [{"type":
\* "text", "text": u}]}}': a line with a text for each of the two paths.
BothData(t, u) ==
    DataLine(Obj([object |-> "message.delta", text |-> t,
                  delta |-> [content |-> <<TextItem(u)>>]]))

MaxPathLines == 4

\* The lines of a stream whose data lines carry a text for the new-format path,
\* for the legacy path or for both, under event names of both kinds.
PathLines ==
    {EventLine(EvTextDelta), EventLine(EvText), EventLine(EvToolResult),
     BothData(<<"x">>, <<"y">>), TextData(<<"a", " ">>),
     DeltaData(<<TextItem(<<"x">>), TextItem(<<"y">>)>>), DataLine(DONE)}

NextPaths ==
    \/ test_question(1)
    \/ Post(1)
    \/ \E line \in PathLines :
          Len(frame[1].response_lines) < MaxPathLines /\ ReadLine(1, line)
    \/ StreamEnd(1)

SpecPaths == Init /\ [][NextPaths]_vars

\* The texts a line carries: that of its "text" field and that of the text items
\* of its delta.
TextsOf(line) ==
    IF IsData(line) /\ IsDict(data_content(line))
    THEN LET json_data == data_content(line).doc.obj
             delta == Get(json_data, "delta", << >>)
         IN  {Get(json_data, "text", << >>)}
               \cup {parse_delta_content(Get(delta, "content", << >>)).text}
    ELSE {<< >>}

\* The step reads a line for request r.
LineRead(r) == Len(frame'[r].response_lines) = Len(frame[r].response_lines) + 1

\* C35: no data line contributes its text to the final answer more than once:
\* whatever the current event name is, the text accumulated by
\* parse_sse_response over the lines read grows by the line's "text" field, by
\* the text of its delta, or by nothing, never by both.
C35_TextAppendedOnce ==
    [][\A r \in Req :
          LineRead(r) =>
              \E text \in TextsOf(ReadBy(r)) \cup {<< >>} :
                  ParseLines(ParserInit, frame'[r].response_lines).text =
                      ParseLines(ParserInit, frame[r].response_lines).text \o text]_vars

\* The line with both texts was read under response.text.delta, which took its
\* "text" field only, and again under response.tool_result, which took the text
\* of its delta only.
C35_Witness ==
    /\ frame[1].response_lines =
           <<EventLine(EvTextDelta), BothData(<<"x">>, <<"y">>),
             EventLine(EvToolResult), BothData(<<"x">>, <<"y">>)>>
    /\ ParseLines(ParserInit, frame[1].response_lines).text = <<"x", "y">>

\* ------------------------------------------------------------------ C36

\* The final-answer text of a stream: the texts of its response.text.delta
\* frames, in arrival order.
AnswerText(lines) == Flatten(FrameFields(lines, EvTextDelta, "text"))

\* C36: the Summary's text never holds thinking content: it is the final-answer
\* text of the stream, and the empty text when the stream carried none, whether
\* or not there are thinking messages.
C36_TextIsAnswerOnly ==
    \A r \in Req :
        Summarized(r) => result[r].text = AnswerText(frame[r].response_lines)

\* A stream of one wrapped thinking text and no final-answer text: the Summary
\* lists the thinking text and its text is empty.
C36_Witness ==
    /\ Summarized(1)
    /\ frame[1].response_lines = <<EventLine(EvThinking), TextData(<<OPEN, "d", CLOSE>>)>>
    /\ Len(parse_sse_response(frame[1].response_lines).messages) = 1
    /\ result[1].planning_updates = <<<<"d">>>>
    /\ result[1].text = << >>

\* ------------------------------------------------------------------ C37

\* C37: in every Summary extract_summary produces, verified_query_used being
\* true implies that verification_info is not empty: it holds at least one of
\* the verification keys.
C37_VerifiedHasVerification ==
    \A r \in Req :
        (Summarized(r) /\ result[r].verified_query_used) =>
            (DOMAIN result[r].verification_info) \cap VerificationKeys # {}

\* A tool result with validated set and then one that clears it: the query
\* counts as verified, and verification_info holds the later, false, value.
C37_Witness ==
    /\ Summarized(1)
    /\ result[1].verified_query_used
    /\ "validated" \in DOMAIN result[1].verification_info
    /\ ~result[1].verification_info["validated"]

\* ------------------------------------------------------------------ C38

\* The step issues, for request r, the chat_update that replaces the progress
\* message by the 'Completed' rendering with the Show Details button.
CompletedIssued(r) ==
    \E i \in 1..Len(slack_calls') :
        /\ slack_calls'[i].by = r
        /\ slack_calls'[i].api = "chat_update" /\ slack_calls'[i].kind = "completed"

\* The step ends the consumption of the stream of request r: the transport
\* ended, or the line read is the sentinel.
StreamConsumed(r) ==
    /\ pc[r] = "streaming" /\ pc'[r] # "streaming"
    /\ \/ frame'[r].response_lines = frame[r].response_lines
       \/ LineRead(r) /\ IsData(ReadBy(r)) /\ IsDone(data_content(ReadBy(r)))

EndsWithoutData(r) ==
    /\ pc[r] = "streaming" /\ pc'[r] # "streaming"
    /\ frame'[r].response_lines = frame[r].response_lines
    /\ ~has_sse_data(frame[r].response_lines)

\* C39: when the transport ends normally and no collected line begins with
\* 'data: ' (a stream with no lines at all included), the lines joined are
\* parsed as one non-streaming JSON response, and when they are no valid JSON
\* the request returns the error Summary whose text begins with "Error:
\* Unexpected error:" instead of raising.
C39_NoDataIsJsonOrError ==
    [][\A r \in Req :
          EndsWithoutData(r) =>
              LET parsed_response == parse_json_response(frame[r].response_lines)
              IN  /\ pc'[r] = "returned"
                  /\ result'[r] =
                         IF parsed_response.exc = None
                         THEN extract_summary(parsed_response)
                         ELSE ErrorSummary(UnexpectedErrorMessage(parsed_response.exc))]_vars

\* ------------------------------------------------------------------ Show Details

\* handle_planning_details_toggle (app.py 153-250), value "show": the steps the
\* details list, from the timeline of the shared object, or from its
\* planning_steps and thinking_steps when the timeline is empty.
combined_steps(timeline, steps, thinking_steps) ==
    IF timeline # << >> THEN [i \in 1..Len(timeline) |-> timeline[i].content]
    ELSE steps \o thinking_steps

\* The progress message of request m shows the 'Show Details' button: the
\* request completed with status messages, and its chat_update, if it is the
\* last call made, did not fail.
HasButton(m) ==
    /\ pc[m] = "returned" /\ ~ErrorShaped(result[m])
    /\ frame[m].planning_updates # << >>
    /\ \A i \in 1..Len(slack_calls) :
           (slack_calls[i].by = m /\ slack_calls[i].kind = "completed") => slack_calls[i].ok

\* The button of the progress message of request m is pressed: the details are
\* built from the attributes of CORTEX_APP and written to the message; when the
\* chat_update fails the handler posts the error.
handle_planning_details_toggle(m) ==
    /\ call = NoCall
    /\ HasButton(m)
    /\ call' = [op |-> "handle_planning_details_toggle", message_ts |-> m,
                combined_steps |-> combined_steps(CORTEX_APP.timeline,
                                                  CORTEX_APP.planning_steps,
                                                  CORTEX_APP.thinking_steps),
                sql_queries |-> CORTEX_APP.sql_queries,
                verified_query_used |-> CORTEX_APP.verified_query_used]
    /\ \E ok_u, ok_s \in BOOLEAN :
          slack_calls' =
              <<ChatUpdate(m, Channel(m), m, "details", ok_u)>>
              \o IF ok_u THEN << >>
                 ELSE <<[api |-> "say", by |-> m, channel |-> Channel(m), ts |-> 0,
                         kind |-> "toggle_error", ok |-> ok_s]>>
    /\ UNCHANGED <<pc, frame, result, CORTEX_APP, channel_id>>

MaxDetailLines == 2

\* The lines of streams whose status messages tell one request from another.
DetailLines == {EventLine(EvStatus), StatusData(M1), StatusData(M2)}

\* No request but r is being served.
Alone(r) == \A q \in Req \ {r} : pc[q] \notin {"posting", "streaming"}

\* Messages to the bot that are served one after the other, and presses of the
\* buttons of their progress messages.
NextDetails ==
    \E r \in Req :
        \/ Alone(r) /\ handle_message_event(r)
        \/ Post(r)
        \/ \E line \in DetailLines :
              Len(frame[r].response_lines) < MaxDetailLines /\ ReadLine(r, line)
        \/ StreamEnd(r)
        \/ Timeout(r)
        \/ handle_planning_details_toggle(r)

SpecDetails == Init /\ [][NextDetails]_vars

\* ------------------------------------------------------------------ C40

\* C40: when the Show Details button of a completed progress message is
\* pressed, the timeline, the SQL queries and the verification status displayed
\* are those of the request that produced that message, whatever requests
\* completed or failed between that request and the press.
C40_DetailsOfTheRequest ==
    call.op = "handle_planning_details_toggle" =>
        LET m == call.message_ts
        IN  /\ call.combined_steps =
                   combined_steps(frame[m].timeline, frame[m].planning_updates, << >>)
            /\ call.sql_queries = result[m].sql_queries
            /\ call.verified_query_used = result[m].verified_query_used

====
